---- MODULE Spec2Model ----
(***************************************************************************)
(* Replication server of sidereal_v3: transport sessions, auth binding,    *)
(* input routing, world-delta collection, per-session visibility filter    *)
(* and add/stay/leave diffing (bins/sidereal-replication).                 *)
(*                                                                         *)
(* One frame of the Bevy app is the chain of systems registered in main(); *)
(* `phase` is the position in that chain.  Transport events (connect,      *)
(* disconnect, message arrival) and the bootstrap listener thread act      *)
(* between frames.                                                         *)
(***************************************************************************)
EXTENDS Integers, Sequences, FiniteSets, TLC

----------------------------------------------------------------------------
(* Bounds of the model *)

\* client entity handles the transport ever allocates
MaxSessions == 1
\* client messages the transport buffers between two frames
MaxPending == 1
\* stand-in for u64::MAX, where last_tick saturates
MaxTick == 2
\* state datagrams on their way to one client or waiting in its receiver
MaxInFlight == 2
\* rows the snapshot marker table takes
MaxMarkers == 2

----------------------------------------------------------------------------
(* Program constants *)

DEFAULT_VIEW_RANGE_M == 300

ALWAYS_VISIBLE_PROPERTIES ==
    { "entity_id", "position_m", "velocity_mps", "heading_rad", "display_name",
      "ship_tag", "module_tag", "mounted_on_entity_id", "parent_entity_id",
      "size_m", "collision_aabb_m", "mass_kg", "asset_id",
      "starfield_shader_asset_id" }

OWNER_ONLY_PROPERTIES ==
    { "health", "owner_entity_id", "shard_assignment", "fuel", "thrust_mps2",
      "turn_rad_per_sec", "hardpoint_id" }

----------------------------------------------------------------------------
(* Input domains *)

Players == { "player:a", "player:b" }
RemoteIds == { "peer:1", "peer:2" }
ClientEntities == 1..MaxSessions

NoPlayer == "none"
NoPos == << >>

\* Vec3 values the physics step moves ships between.  |P0-P1| = 300 (the
\* inclusive boundary of the default range), |P0-P2| = 700, |P1-P2| ~ 573.
P0 == << 0, 0, 0 >>
P1 == << 180, 240, 0 >>
P2 == << 700, 0, 0 >>
Positions == { P0, P1, P2 }

\* HS256 secrets: the gateway's shared secret and a foreign one.
GatewaySecret == "gateway-secret"
ForgedSecret == "forged-secret"
ExpStates == { "unexpired", "expired" }

\* an access token: the key it was signed with, its exp claim relative to
\* now, and the embedded player_entity_id claim
AccessTokens ==
    { [ signed_with |-> GatewaySecret, exp |-> "unexpired", player_entity_id |-> p ] : p \in Players }
    \cup { [ signed_with |-> ForgedSecret, exp |-> "unexpired", player_entity_id |-> "player:b" ],
           [ signed_with |-> GatewaySecret, exp |-> "expired", player_entity_id |-> "player:b" ] }

\* every token presented under the player it names, and the good token of
\* player:a presented under the name of player:b
ClientAuthMessages ==
    { [ player_entity_id |-> t.player_entity_id, access_token |-> t ] : t \in AccessTokens }
    \cup { [ player_entity_id |-> "player:b",
             access_token |-> [ signed_with |-> GatewaySecret, exp |-> "unexpired",
                                player_entity_id |-> "player:a" ] ] }

NoOwner == NoPlayer

EntityActions == { "ThrustForward" }

ClientInputMessages ==
    { [ player_entity_id |-> p, actions |-> << a >> ] : p \in Players, a \in EntityActions }

----------------------------------------------------------------------------
(* Map helpers (HashMap insert / remove / retain) *)

EmptyMap == [ k \in {} |-> NoPlayer ]

Put(m, key, value) ==
    [ k \in DOMAIN m \cup { key } |-> IF k = key THEN value ELSE m[k] ]

Retain(m, keep) == [ k \in DOMAIN m \cap keep |-> m[k] ]

Get(m, key, default) == IF key \in DOMAIN m THEN m[key] ELSE default

----------------------------------------------------------------------------
(* Persisted graph records found at startup (GraphEntityRecord), reduced   *)
(* to what hydration reads: labels, properties.player_entity_id,           *)
(* properties.position_m, the owner_id component and, for modules, the     *)
(* parent of the mounted_on component.                                     *)

ShipRecord(id, player, owner, pos) ==
    [ entity_id |-> id, label |-> "Ship", player_entity_id |-> player,
      owner_id |-> owner, position_m |-> pos, parent |-> "" ]

HardpointRecord(id, owner, parent) ==
    [ entity_id |-> id, label |-> "Hardpoint", player_entity_id |-> NoPlayer,
      owner_id |-> owner, position_m |-> NoPos, parent |-> parent ]

ModuleRecord(id, owner, parent) ==
    [ entity_id |-> id, label |-> "Module", player_entity_id |-> NoPlayer,
      owner_id |-> owner, position_m |-> NoPos, parent |-> parent ]

\* the graph at startup: two hulls of player:a, one as the gateway writes
\* it (no components) and one as this server persists it, an owned engine
\* module, an unowned hardpoint and a module whose hull is gone; the ship
\* of player:b arrives by bootstrap
GraphStores ==
    { << ShipRecord("ship:a2", "player:a", "player:a", P2),
         ShipRecord("ship:a", "player:a", NoOwner, P0),
         HardpointRecord("hardpoint:n", NoOwner, "ship:a"),
         ModuleRecord("module:a", "player:a", "ship:a"),
         ModuleRecord("module:orphan", "player:b", "ship:gone") >> }

----------------------------------------------------------------------------
VARIABLES
    phase,                  \* next system of the Update chain, or "idle"
    jwt_secret,             \* env GATEWAY_JWT_SECRET ("" when unset or short)
    visibility_mode,        \* env REPLICATION_VISIBILITY_MODE
    clients,                \* live ClientOf entities: client_entity -> RemoteId
    next_client,            \* next client entity handle the transport spawns
    auth_rx,                \* MessageReceiver<ClientAuthMessage> per client
    input_rx,               \* MessageReceiver<ClientInputMessage> per client
    bindings,               \* AuthenticatedClientBindings
    visibility_registry,    \* ClientVisibilityRegistry.player_entity_id_by_client
    position_map,           \* ClientControlledEntityPositionMap
    visibility_history,     \* ClientVisibilityHistory.visible_entities_by_client
    controlled_entity_map,  \* PlayerControlledEntityMap.by_player_entity_id
    ships,                  \* SimulatedControlledEntity entities by entity_id
    fittings,               \* hardpoint and module entities by entity_id
    bootstrap_rx,           \* mpsc channel of BootstrapShipCommand
    bootstrap_applied,      \* accounts with a dedup row
    outbound,               \* ReplicationOutboundQueue.messages
    last_tick,              \* ReplicationRuntime.last_tick
    state_channel,          \* state frames sent during this frame
    trace,                  \* per-message decisions of the system that just ran
    wire,                   \* StateChannel datagrams in flight to the client
    client_rx,              \* the client's MessageReceiver<ReplicationStateMessage>
    remote_registry,        \* the client's RemoteShipRegistry.by_entity_id keys
    graph,                  \* the AGE graph: Entity and Component nodes, edges
    snapshot_markers,       \* rows of replication_snapshot_markers, in insert order
    pending_updates,        \* ReplicationRuntime.pending_updates
    known_entities,         \* ReplicationRuntime.known_entities
    last_persisted_state,   \* ReplicationRuntime.last_persisted_state
    persist_elapsed,        \* last_persist_at.elapsed() >= persist_interval
    snapshot_elapsed,       \* last_snapshot_at.elapsed() >= snapshot_interval
    persist_result,         \* what the last flush_pending_updates call returned
    runtime_init,           \* how init_replication_runtime ended at startup
    reported,               \* per entity, what the callers of the store last reported
    dedup_rows,             \* rows of replication_player_bootstrap, in insert order
    bootstrap_events,       \* rows of replication_bootstrap_events, in insert order
    auth_accounts,          \* gateway: rows of auth_accounts by email
    bootstrap_commands,     \* gateway: calls of BootstrapDispatcher::dispatch, in order
    handlers,               \* gateway: the register and login handlers in progress
    now_epoch_s,            \* gateway: now_epoch_s(), in clock steps
    refresh_tokens,         \* gateway: rows of auth_refresh_tokens by token_hash
    reset_tokens,           \* gateway: rows of auth_password_reset_tokens by token_hash
    issued_tokens,          \* every token a response has handed to a client
    response,               \* the last response of the token endpoints
    flight,                 \* one entity of FixedUpdate: ActionQueue, FlightComputer, warnings
    interpolation,          \* client: a SnapshotBuffer, a render time and the sample returned
    client_app              \* client: app state, session, snapshot, registry, bindings;
                            \* or its controlled ship

vars == << phase, jwt_secret, visibility_mode, clients, next_client, auth_rx,
           input_rx, bindings, visibility_registry, position_map,
           visibility_history, controlled_entity_map, ships, fittings,
           bootstrap_rx, bootstrap_applied, outbound, last_tick, state_channel,
           trace, wire, client_rx, remote_registry, graph, snapshot_markers,
           pending_updates, known_entities, last_persisted_state,
           persist_elapsed, snapshot_elapsed, persist_result, runtime_init,
           reported,
           dedup_rows, bootstrap_events, auth_accounts, bootstrap_commands,
           handlers, now_epoch_s, refresh_tokens, reset_tokens, issued_tokens,
           response, flight, interpolation, client_app >>

envVars == << jwt_secret, visibility_mode >>
transportVars == << clients, next_client, auth_rx, input_rx >>
sessionVars == << bindings, visibility_registry, visibility_history >>
worldVars == << ships, fittings, controlled_entity_map, position_map >>
bootstrapVars == << bootstrap_rx, bootstrap_applied >>
deltaVars == << outbound, last_tick, state_channel, trace >>
clientVars == << wire, client_rx, remote_registry >>
storeVars == << graph, snapshot_markers >>
runtimeVars == << pending_updates, known_entities, last_persisted_state,
                 persist_elapsed, snapshot_elapsed, persist_result,
                 runtime_init >>


\* state of the specifications that drive one component on its own
bootstrapStoreVars == << dedup_rows, bootstrap_events >>
tokenVars == << now_epoch_s, refresh_tokens, reset_tokens, issued_tokens, response >>
gatewayVars == << auth_accounts, bootstrap_commands, handlers, tokenVars >>
standaloneVars == << flight, interpolation, client_app >>
elsewhereVars == << reported, bootstrapStoreVars, gatewayVars, standaloneVars >>

\* the database and the persistence half of the runtime
offstageVars == << storeVars, runtimeVars, elsewhereVars >>

\* what the session and visibility systems of the replication server never
\* touch
outsideVars == << clientVars, offstageVars >>

\* no client process is modelled
ClientAbsent ==
    /\ wire = {}
    /\ client_rx = << >>
    /\ remote_registry = {}

EmptyGraph == [ entities |-> EmptyMap, components |-> EmptyMap, has_component |-> {} ]

NoResult == [ status |-> "none", batch |-> EmptyMap, tick |-> 0 ]

\* the tables of the bootstrap store are not modelled
BootstrapStoreAbsent ==
    /\ dedup_rows = << >>
    /\ bootstrap_events = << >>

NoResponse == [ op |-> "none", flip |-> FALSE, token |-> 0, password |-> "",
                status |-> 0, reset_to |-> "" ]

\* the token endpoints of the gateway are not called
TokensAbsent ==
    /\ now_epoch_s = 0
    /\ refresh_tokens = EmptyMap
    /\ reset_tokens = EmptyMap
    /\ issued_tokens = {}
    /\ response = NoResponse

\* no gateway runs
GatewayAbsent ==
    /\ auth_accounts = EmptyMap
    /\ bootstrap_commands = << >>
    /\ handlers = << >>
    /\ TokensAbsent

\* the game pipeline and the client are not modelled on their own
StandaloneAbsent ==
    /\ flight = << >>
    /\ interpolation = << >>
    /\ client_app = << >>

\* no caller of the store is modelled on its own
ElsewhereAbsent ==
    /\ reported = EmptyMap
    /\ BootstrapStoreAbsent
    /\ GatewayAbsent
    /\ StandaloneAbsent

\* the persistence half of the runtime is not modelled: nothing the session
\* and visibility systems read is written by it
PersistenceAbsent ==
    /\ ElsewhereAbsent
    /\ graph = EmptyGraph
    /\ snapshot_markers = << >>
    /\ pending_updates = EmptyMap
    /\ known_entities = {}
    /\ last_persisted_state = EmptyMap
    /\ persist_elapsed = FALSE
    /\ snapshot_elapsed = FALSE
    /\ persist_result = NoResult
    /\ runtime_init = "inserted"

----------------------------------------------------------------------------
(* Startup: hydrate_simulation_entities *)

\* pass 1 resolves the controlling player of a Ship record
ShipRecordPlayer(record) ==
    IF record.player_entity_id # NoPlayer THEN record.player_entity_id
    ELSE record.owner_id

\* the hull without the OwnerId(player) default: only the record's own
\* owner_id component, if any
HydratedShip_without_owner_default(record, spawn_index) ==
    [ entity_id |-> record.entity_id,
      spawn_index |-> spawn_index,
      player_entity_id |-> ShipRecordPlayer(record),
      owner_id |-> record.owner_id,
      position |-> record.position_m,
      has_scanner_range |-> TRUE,
      pending |-> << >> ]

\* the entity spawned for a Ship record; insert_registered_components then
\* overwrites OwnerId with the record's owner_id component when it has one
HydratedShip(record, spawn_index) ==
    [ entity_id |-> record.entity_id,
      spawn_index |-> spawn_index,
      player_entity_id |-> ShipRecordPlayer(record),
      owner_id |-> IF record.owner_id # NoOwner THEN record.owner_id
                   ELSE ShipRecordPlayer(record),
      position |-> record.position_m,
      has_scanner_range |-> TRUE,
      pending |-> << >> ]

RECURSIVE HydrateShips(_, _)
HydrateShips(records, acc) ==
    IF records = << >> THEN acc
    ELSE LET record == Head(records) IN
         IF record.label = "Ship" /\ ShipRecordPlayer(record) # NoPlayer
         THEN HydrateShips(Tail(records),
                 [ ships |-> Put(acc.ships, record.entity_id,
                                  HydratedShip(record, Cardinality(DOMAIN acc.ships) + 1)),
                   map |-> Put(acc.map, ShipRecordPlayer(record), record.entity_id) ])
         ELSE HydrateShips(Tail(records), acc)

\* passes 2 and 3: hardpoints always, modules only under a hydrated ship
HydrateFittings(records, hulls) ==
    LET kept == { i \in 1..Len(records) :
                    \/ records[i].label = "Hardpoint"
                    \/ records[i].label = "Module" /\ records[i].parent \in hulls }
    IN [ id \in { records[i].entity_id : i \in kept } |->
           LET record == records[CHOOSE i \in kept : records[i].entity_id = id]
           IN [ entity_id |-> id, kind |-> record.label,
                owner_id |-> record.owner_id, parent |-> record.parent ] ]

hydrate_simulation_entities(records) ==
    LET hulls == HydrateShips(records, [ ships |-> EmptyMap, map |-> EmptyMap ])
    IN [ ships |-> hulls.ships, map |-> hulls.map,
         fittings |-> HydrateFittings(records, DOMAIN hulls.ships) ]

Init ==
    /\ phase = "idle"
    /\ jwt_secret \in { GatewaySecret, "" }
    /\ visibility_mode \in { "default", "none" }
    /\ clients = EmptyMap
    /\ next_client = 1
    /\ auth_rx = EmptyMap
    /\ input_rx = EmptyMap
    /\ bindings = [ by_client_entity |-> EmptyMap, by_remote_id |-> EmptyMap ]
    /\ visibility_registry = EmptyMap
    /\ position_map = EmptyMap
    /\ visibility_history = EmptyMap
    /\ \E store \in GraphStores :
         LET hydrated == hydrate_simulation_entities(store) IN
         /\ ships = hydrated.ships
         /\ fittings = hydrated.fittings
         /\ controlled_entity_map = hydrated.map
         \* the dedup rows live in the same database as the graph: an
         \* account whose starter world is in the graph has its row
         /\ bootstrap_applied = DOMAIN hydrated.map
    /\ bootstrap_rx = << >>
    /\ outbound = << >>
    /\ last_tick = 0
    /\ state_channel = << >>
    /\ trace = << >>
    /\ ClientAbsent
    /\ PersistenceAbsent

----------------------------------------------------------------------------
(* Transport and listener-thread events between frames *)

PendingMessages ==
    LET RECURSIVE Count(_)
        Count(cs) == IF cs = {} THEN 0
                     ELSE LET c == CHOOSE c \in cs : TRUE
                          IN Len(auth_rx[c]) + Len(input_rx[c]) + Count(cs \ { c })
    IN Count(DOMAIN clients)

\* a peer connects: the transport spawns a ClientOf entity with its RemoteId
Connect(remote_id) ==
    /\ phase = "idle"
    /\ next_client <= MaxSessions
    /\ \A c \in DOMAIN clients : clients[c] # remote_id
    /\ clients' = Put(clients, next_client, remote_id)
    /\ auth_rx' = Put(auth_rx, next_client, << >>)
    /\ input_rx' = Put(input_rx, next_client, << >>)
    /\ next_client' = next_client + 1
    /\ UNCHANGED << phase, envVars, sessionVars, worldVars, bootstrapVars, deltaVars >>
    /\ UNCHANGED outsideVars

\* the transport drops a session: its entity and receivers are despawned
Disconnect(client_entity) ==
    /\ phase = "idle"
    /\ client_entity \in DOMAIN clients
    /\ clients' = Retain(clients, DOMAIN clients \ { client_entity })
    /\ auth_rx' = Retain(auth_rx, DOMAIN clients \ { client_entity })
    /\ input_rx' = Retain(input_rx, DOMAIN clients \ { client_entity })
    /\ UNCHANGED << phase, envVars, next_client, sessionVars, worldVars,
                    bootstrapVars, deltaVars >>
    /\ UNCHANGED outsideVars

ArriveAuth(client_entity, message) ==
    /\ phase = "idle"
    /\ client_entity \in DOMAIN clients
    /\ PendingMessages < MaxPending
    /\ auth_rx' = [ auth_rx EXCEPT ![client_entity] = Append(@, message) ]
    /\ UNCHANGED << phase, envVars, clients, next_client, input_rx, sessionVars,
                    worldVars, bootstrapVars, deltaVars >>
    /\ UNCHANGED outsideVars

ArriveInput(client_entity, message) ==
    /\ phase = "idle"
    /\ client_entity \in DOMAIN clients
    /\ PendingMessages < MaxPending
    /\ input_rx' = [ input_rx EXCEPT ![client_entity] = Append(@, message) ]
    /\ UNCHANGED << phase, envVars, clients, next_client, auth_rx, sessionVars,
                    worldVars, bootstrapVars, deltaVars >>
    /\ UNCHANGED outsideVars

ShipIdOf(player_entity_id) ==
    IF player_entity_id = "player:a" THEN "ship:a" ELSE "ship:b"

EngineIdOf(ship_entity_id) ==
    IF ship_entity_id = "ship:a" THEN "module:engine:a" ELSE "module:engine:b"

\* the control listener thread: the first bootstrap_player payload of an
\* account is applied and a BootstrapShipCommand is sent to the main loop
BootstrapListener(player_entity_id) ==
    /\ phase = "idle"
    /\ player_entity_id \notin bootstrap_applied
    /\ bootstrap_applied' = bootstrap_applied \cup { player_entity_id }
    /\ bootstrap_rx' = Append(bootstrap_rx,
                              [ player_entity_id |-> player_entity_id,
                                ship_entity_id |-> ShipIdOf(player_entity_id) ])
    /\ UNCHANGED << phase, envVars, transportVars, sessionVars, worldVars, deltaVars >>
    /\ UNCHANGED outsideVars

----------------------------------------------------------------------------
(* A frame.  RunFixedMainLoop comes before Update: a fixed step drains the  *)
(* action queues (process_flight_actions) and the physics library moves a  *)
(* ship that was given thrust.                                             *)

DrainQueues(sh) == [ id \in DOMAIN sh |-> [ sh[id] EXCEPT !.pending = << >> ] ]

FixedStep ==
    /\ phase = "idle"
    /\ \/ ships' = DrainQueues(ships)
       \/ \E id \in DOMAIN ships :
            /\ ships[id].pending # << >>
            /\ \E pos \in Positions \ { ships[id].position } :
                 ships' = [ DrainQueues(ships) EXCEPT ![id].position = pos ]
    /\ phase' = "cleanup"
    /\ UNCHANGED << envVars, transportVars, sessionVars, fittings,
                    controlled_entity_map, position_map, bootstrapVars, deltaVars >>
    /\ UNCHANGED outsideVars

\* cleanup_client_auth_bindings
cleanup_client_auth_bindings ==
    /\ phase = "cleanup"
    /\ LET live_clients == DOMAIN clients
           live_remote_ids == { clients[c] : c \in DOMAIN clients }
       IN bindings' =
            [ by_client_entity |-> Retain(bindings.by_client_entity, live_clients),
              by_remote_id |-> Retain(bindings.by_remote_id, live_remote_ids) ]
    /\ phase' = "receive_auth"
    /\ UNCHANGED << envVars, transportVars, visibility_registry, visibility_history,
                    worldVars, bootstrapVars, deltaVars >>
    /\ UNCHANGED outsideVars

\* decode_access_token with validate_exp left off
decode_access_token_without_exp(token, secret) ==
    IF token.signed_with = secret THEN token.player_entity_id ELSE NoPlayer

\* jsonwebtoken decode with HS256 and validate_exp: the claims, or nothing
decode_access_token(token, secret) ==
    IF token.signed_with = secret /\ token.exp = "unexpired"
    THEN token.player_entity_id
    ELSE NoPlayer

\* the auth decision without the check of the remote id's existing binding
AcceptedAuthPlayer_rebinding(by_remote_id, remote_id, message, secret) ==
    LET claims == decode_access_token(message.access_token, secret) IN
    IF claims = NoPlayer THEN NoPlayer
    ELSE IF claims # message.player_entity_id THEN NoPlayer
    ELSE claims

\* the player an auth frame binds its session to, or NoPlayer when the
\* frame is rejected (bad token, player mismatch, remote bound elsewhere)
AcceptedAuthPlayer(by_remote_id, remote_id, message, secret) ==
    LET claims == decode_access_token(message.access_token, secret) IN
    IF claims = NoPlayer THEN NoPlayer
    ELSE IF claims # message.player_entity_id THEN NoPlayer
    ELSE IF remote_id \in DOMAIN by_remote_id /\ by_remote_id[remote_id] # claims
         THEN NoPlayer
    ELSE claims

\* the body of the loop over one receiver's messages
RECURSIVE ReceiveAuthMessages(_, _, _, _, _)
ReceiveAuthMessages(st, client_entity, remote_id, messages, secret) ==
    IF messages = << >> THEN st
    ELSE LET player == AcceptedAuthPlayer(st.by_remote_id, remote_id,
                                          Head(messages), secret)
             decision == [ system |-> "auth", client_entity |-> client_entity,
                           remote_id |-> remote_id, message |-> Head(messages),
                           bound_before |-> Get(st.by_remote_id, remote_id, NoPlayer),
                           accepted |-> player ]
             next == IF player = NoPlayer
                     THEN [ st EXCEPT !.trace = Append(@, decision) ]
                     ELSE [ by_client_entity |-> Put(st.by_client_entity, client_entity, player),
                            by_remote_id |-> Put(st.by_remote_id, remote_id, player),
                            registry |-> Put(st.registry, client_entity, player),
                            trace |-> Append(st.trace, decision) ]
         IN ReceiveAuthMessages(next, client_entity, remote_id, Tail(messages), secret)

\* the loop over the receivers, in entity order
RECURSIVE ReceiveAuthClients(_, _, _)
ReceiveAuthClients(st, client_set, secret) ==
    IF client_set = {} THEN st
    ELSE LET c == CHOOSE c \in client_set : \A d \in client_set : c <= d
         IN ReceiveAuthClients(
                ReceiveAuthMessages(st, c, clients[c], auth_rx[c], secret),
                client_set \ { c }, secret)

\* receive_client_auth_messages; without a usable secret it returns before
\* reading any receiver
receive_client_auth_messages ==
    /\ phase = "receive_auth"
    /\ IF jwt_secret = ""
       THEN UNCHANGED << bindings, visibility_registry, auth_rx, trace >>
       ELSE LET st == ReceiveAuthClients(
                         [ by_client_entity |-> bindings.by_client_entity,
                           by_remote_id |-> bindings.by_remote_id,
                           registry |-> visibility_registry,
                           trace |-> << >> ],
                         DOMAIN clients, jwt_secret)
            IN /\ bindings' = [ by_client_entity |-> st.by_client_entity,
                                by_remote_id |-> st.by_remote_id ]
               /\ visibility_registry' = st.registry
               /\ auth_rx' = [ c \in DOMAIN auth_rx |-> << >> ]
               /\ trace' = st.trace
    /\ phase' = "receive_inputs"
    /\ UNCHANGED << envVars, clients, next_client, input_rx, visibility_history,
                    worldVars, bootstrapVars, outbound, last_tick, state_channel >>
    /\ UNCHANGED outsideVars

\* input routing by the player the frame names, once the session is bound
RoutedEntity_by_claimed_player(by_client_entity, map, sh, client_entity, message) ==
    IF client_entity \notin DOMAIN by_client_entity THEN ""
    ELSE IF message.player_entity_id \in DOMAIN map
              /\ map[message.player_entity_id] \in DOMAIN sh
         THEN map[message.player_entity_id]
         ELSE ""

\* input routing that falls back to the named player for an unbound session
RoutedEntity_without_binding(by_client_entity, map, sh, client_entity, message) ==
    LET bound_player == Get(by_client_entity, client_entity, message.player_entity_id) IN
    IF bound_player # message.player_entity_id THEN ""
    ELSE IF bound_player \in DOMAIN map /\ map[bound_player] \in DOMAIN sh
         THEN map[bound_player]
         ELSE ""

\* the entity whose ActionQueue an input frame is pushed to, or "" when the
\* frame is dropped (unbound session, spoofed player, no controlled entity)
RoutedEntity(by_client_entity, map, sh, client_entity, message) ==
    IF client_entity \notin DOMAIN by_client_entity THEN ""
    ELSE LET bound_player == by_client_entity[client_entity] IN
         IF bound_player # message.player_entity_id THEN ""
         ELSE IF bound_player \in DOMAIN map /\ map[bound_player] \in DOMAIN sh
              THEN map[bound_player]
              ELSE ""

RECURSIVE ReceiveInputMessages(_, _, _)
ReceiveInputMessages(st, client_entity, messages) ==
    IF messages = << >> THEN st
    ELSE LET message == Head(messages)
             target == RoutedEntity(bindings.by_client_entity, controlled_entity_map,
                                    st.ships, client_entity, message)
             decision == [ system |-> "input", client_entity |-> client_entity,
                           message |-> message, target |-> target ]
             next == IF target = ""
                     THEN [ st EXCEPT !.trace = Append(@, decision) ]
                     ELSE [ ships |-> [ st.ships EXCEPT ![target].pending =
                                          @ \o message.actions ],
                            trace |-> Append(st.trace, decision) ]
         IN ReceiveInputMessages(next, client_entity, Tail(messages))

RECURSIVE ReceiveInputClients(_, _)
ReceiveInputClients(st, client_set) ==
    IF client_set = {} THEN st
    ELSE LET c == CHOOSE c \in client_set : \A d \in client_set : c <= d
         IN ReceiveInputClients(ReceiveInputMessages(st, c, input_rx[c]),
                                client_set \ { c })

\* receive_client_inputs
receive_client_inputs ==
    /\ phase = "receive_inputs"
    /\ LET st == ReceiveInputClients([ ships |-> ships, trace |-> << >> ],
                                     DOMAIN clients)
       IN /\ ships' = st.ships
          /\ trace' = st.trace
    /\ input_rx' = [ c \in DOMAIN input_rx |-> << >> ]
    /\ phase' = "process_bootstrap"
    /\ UNCHANGED << envVars, clients, next_client, auth_rx, sessionVars, fittings,
                    controlled_entity_map, position_map, bootstrapVars,
                    outbound, last_tick, state_channel >>
    /\ UNCHANGED outsideVars

\* spawn_simulation_entity: the hull, owned and controlled by the player,
\* and its engine module
SpawnedShip(entity_id, player_entity_id, spawn_index) ==
    [ entity_id |-> entity_id,
      spawn_index |-> spawn_index,
      player_entity_id |-> player_entity_id,
      owner_id |-> player_entity_id,
      position |-> P0,
      has_scanner_range |-> FALSE,
      pending |-> << >> ]

SpawnedEngine(ship_entity_id, player_entity_id) ==
    [ entity_id |-> EngineIdOf(ship_entity_id), kind |-> "Module",
      owner_id |-> player_entity_id, parent |-> ship_entity_id ]

\* the loop of process_bootstrap_ship_commands as `if let`: one try_recv
ProcessBootstrapCommands_first_only(st, commands) ==
    IF commands = << >> \/ Head(commands).player_entity_id \in DOMAIN st.map THEN st
    ELSE [ ships |-> Put(st.ships, Head(commands).ship_entity_id,
                         SpawnedShip(Head(commands).ship_entity_id,
                                     Head(commands).player_entity_id,
                                     Cardinality(DOMAIN st.ships) + 1)),
           fittings |-> Put(st.fittings, EngineIdOf(Head(commands).ship_entity_id),
                            SpawnedEngine(Head(commands).ship_entity_id,
                                          Head(commands).player_entity_id)),
           map |-> Put(st.map, Head(commands).player_entity_id,
                       Head(commands).ship_entity_id) ]

RECURSIVE ProcessBootstrapCommands(_, _)
ProcessBootstrapCommands(st, commands) ==
    IF commands = << >> THEN st
    ELSE LET cmd == Head(commands) IN
         IF cmd.player_entity_id \in DOMAIN st.map
         THEN ProcessBootstrapCommands(st, Tail(commands))
         ELSE ProcessBootstrapCommands(
                [ ships |-> Put(st.ships, cmd.ship_entity_id,
                                SpawnedShip(cmd.ship_entity_id, cmd.player_entity_id,
                                            Cardinality(DOMAIN st.ships) + 1)),
                  fittings |-> Put(st.fittings, EngineIdOf(cmd.ship_entity_id),
                                   SpawnedEngine(cmd.ship_entity_id, cmd.player_entity_id)),
                  map |-> Put(st.map, cmd.player_entity_id, cmd.ship_entity_id) ],
                Tail(commands))

\* process_bootstrap_ship_commands
process_bootstrap_ship_commands ==
    /\ phase = "process_bootstrap"
    /\ LET st == ProcessBootstrapCommands(
                    [ ships |-> ships, fittings |-> fittings,
                      map |-> controlled_entity_map ], bootstrap_rx)
       IN /\ ships' = st.ships
          /\ fittings' = st.fittings
          /\ controlled_entity_map' = st.map
    /\ bootstrap_rx' = << >>
    /\ trace' = << >>
    /\ phase' = "update_positions"
    /\ UNCHANGED << envVars, transportVars, sessionVars, position_map,
                    bootstrap_applied, outbound, last_tick, state_channel >>
    /\ UNCHANGED outsideVars

\* ship ids in query order (spawn order)
ShipOrder(sh) ==
    [ i \in 1..Cardinality(DOMAIN sh) |->
        CHOOSE id \in DOMAIN sh : sh[id].spawn_index = i ]

RECURSIVE UpdatePositions(_, _, _)
UpdatePositions(positions, sh, order) ==
    IF order = << >> THEN positions
    ELSE UpdatePositions(
            Put(positions, sh[Head(order)].player_entity_id, sh[Head(order)].position),
            sh, Tail(order))

\* update_client_controlled_entity_positions
update_client_controlled_entity_positions ==
    /\ phase = "update_positions"
    /\ position_map' = UpdatePositions(position_map, ships, ShipOrder(ships))
    /\ phase' = "collect"
    /\ UNCHANGED << envVars, transportVars, sessionVars, ships, fittings,
                    controlled_entity_map, bootstrapVars, deltaVars >>
    /\ UNCHANGED outsideVars

----------------------------------------------------------------------------
(* World deltas.  A JSON value is tagged with its kind; a property bag is  *)
(* a function from keys to values; a component payload travels in the      *)
(* reflect envelope { type_path: payload }.                                *)

JString(s) == [ json |-> "string", value |-> s ]
JObject(m) == [ json |-> "object", value |-> m ]

TypePath(component_kind) ==
    IF component_kind = "owner_id"
    THEN "sidereal_game::generated::components::OwnerId"
    ELSE "sidereal_game::generated::components::Other"

\* wrap_component_payload / encode_reflect_component, every kind registered
wrap_component_payload(component_kind, payload) ==
    JObject([ k \in { TypePath(component_kind) } |-> payload ])

ComponentDelta(entity_id, component_kind, payload) ==
    [ component_id |-> << entity_id, component_kind >>,
      component_kind |-> component_kind,
      properties |-> wrap_component_payload(component_kind, payload) ]

\* compute_controlled_entity_scanner_ranges: a hull that carries
\* ScannerRangeM and no scanner gets the floor, others report 0.0
ScannerRangeOf(ship) == IF ship.has_scanner_range THEN DEFAULT_VIEW_RANGE_M ELSE 0

\* the delta_entity built for a ship (components abbreviated to four kinds)
ShipDelta(ship) ==
    [ entity_id |-> ship.entity_id,
      labels |-> { "Entity", "Ship" },
      properties |->
        [ k \in { "entity_id", "player_entity_id", "position_m", "velocity_mps",
                  "heading_rad", "health", "max_health", "scanner_range_m",
                  "mass_kg", "total_mass_kg" } |->
            CASE k = "entity_id" -> ship.entity_id
              [] k = "player_entity_id" -> ship.player_entity_id
              [] k = "position_m" -> ship.position
              [] k = "velocity_mps" -> << 0, 0, 0 >>
              [] k = "scanner_range_m" -> ScannerRangeOf(ship)
              [] k \in { "health", "max_health" } -> 100
              [] k \in { "mass_kg", "total_mass_kg" } -> 15000
              [] OTHER -> 0 ],
      components |->
        << ComponentDelta(ship.entity_id, "owner_id", JString(ship.owner_id)),
           ComponentDelta(ship.entity_id, "flight_computer", JString("basic_fly_by_wire")),
           ComponentDelta(ship.entity_id, "health_pool", JString("100/100")),
           ComponentDelta(ship.entity_id, "scanner_range_m", JString("range")) >>,
      removed |-> FALSE ]

OwnerComponent(fitting) ==
    IF fitting.owner_id = NoOwner THEN << >>
    ELSE << ComponentDelta(fitting.entity_id, "owner_id", JString(fitting.owner_id)) >>

HardpointDelta(fitting) ==
    [ entity_id |-> fitting.entity_id,
      labels |-> { "Entity", "Hardpoint" },
      properties |->
        [ k \in { "hardpoint_id", "offset_m", "parent_entity_id", "owner_entity_id" } |->
            CASE k = "hardpoint_id" -> "engine_main"
              [] k = "offset_m" -> << 0, 0, 0 >>
              [] OTHER -> fitting.parent ],
      components |->
        << ComponentDelta(fitting.entity_id, "hardpoint", JString("engine_main")) >>
        \o OwnerComponent(fitting),
      removed |-> FALSE ]

ModuleDelta(fitting) ==
    [ entity_id |-> fitting.entity_id,
      labels |-> { "Entity", "Module" },
      properties |->
        [ k \in { "entity_id", "mounted_on_entity_id", "parent_entity_id",
                  "hardpoint_id", "scanner_range_m" } |->
            CASE k = "entity_id" -> fitting.entity_id
              [] k = "hardpoint_id" -> "engine_main"
              [] k = "scanner_range_m" -> 0
              [] OTHER -> fitting.parent ],
      components |->
        << ComponentDelta(fitting.entity_id, "mounted_on", JString(fitting.parent)) >>
        \o OwnerComponent(fitting),
      removed |-> FALSE ]

\* a set of entity ids as a sequence, in a fixed order
RECURSIVE IdsInOrder(_)
IdsInOrder(ids) ==
    IF ids = {} THEN << >>
    ELSE LET id == CHOOSE id \in ids : TRUE IN << id >> \o IdsInOrder(ids \ { id })

\* broadcast_updates: ships, then hardpoints, then modules
BroadcastUpdates(sh, fit) ==
    LET ship_ids == ShipOrder(sh)
        hardpoint_ids == IdsInOrder({ id \in DOMAIN fit : fit[id].kind = "Hardpoint" })
        module_ids == IdsInOrder({ id \in DOMAIN fit : fit[id].kind = "Module" })
    IN [ i \in 1..Len(ship_ids) |-> ShipDelta(sh[ship_ids[i]]) ]
       \o [ i \in 1..Len(hardpoint_ids) |-> HardpointDelta(fit[hardpoint_ids[i]]) ]
       \o [ i \in 1..Len(module_ids) |-> ModuleDelta(fit[module_ids[i]]) ]

\* u64 saturating_add(1)
SaturatingAdd1(tick) == IF tick < MaxTick THEN tick + 1 ELSE MaxTick

\* collect_local_simulation_state, the broadcast half
collect_local_simulation_state ==
    /\ phase = "collect"
    /\ LET broadcast_updates == BroadcastUpdates(ships, fittings) IN
       IF broadcast_updates = << >>
       THEN UNCHANGED << outbound, last_tick >>
       ELSE /\ last_tick' = SaturatingAdd1(last_tick)
            /\ outbound' = Append(outbound,
                                  [ tick |-> SaturatingAdd1(last_tick),
                                    world |-> broadcast_updates ])
    /\ phase' = "refresh"
    /\ UNCHANGED << envVars, transportVars, sessionVars, worldVars, bootstrapVars,
                    state_channel, trace >>
    /\ UNCHANGED outsideVars

\* serialize_registered_components_for_entity: the registered components an
\* entity carries, in registry order (abbreviated to the kinds of the model)
SerializedShipComponents(ship) ==
    << ComponentDelta(ship.entity_id, "entity_guid", JString(ship.entity_id)),
       ComponentDelta(ship.entity_id, "flight_computer", JString("basic_fly_by_wire")),
       ComponentDelta(ship.entity_id, "health_pool", JString("100/100")) >>
    \o ( IF ship.has_scanner_range
         THEN << ComponentDelta(ship.entity_id, "scanner_range_m", JString("range")) >>
         ELSE << >> )
    \o << ComponentDelta(ship.entity_id, "owner_id", JString(ship.owner_id)) >>

SerializedFittingComponents(fitting) ==
    << ComponentDelta(fitting.entity_id, "entity_guid", JString(fitting.entity_id)),
       ComponentDelta(fitting.entity_id,
                      IF fitting.kind = "Hardpoint" THEN "hardpoint" ELSE "mounted_on",
                      JString(fitting.parent)) >>
    \o OwnerComponent(fitting)

\* ids of the non-removed updates of a delta
VisibleIds(updates) ==
    { updates[i].entity_id : i \in { i \in 1..Len(updates) : ~updates[i].removed } }

\* ids of the non-removed updates waiting in the outbound queue
TargetIds(queue) ==
    UNION { VisibleIds(queue[i].world) : i \in 1..Len(queue) }

RefreshUpdate(update) ==
    IF update.entity_id \notin TargetIds(outbound) THEN update
    ELSE IF update.entity_id \in DOMAIN ships
         THEN [ update EXCEPT !.components = SerializedShipComponents(ships[update.entity_id]) ]
    ELSE IF update.entity_id \in DOMAIN fittings
         THEN [ update EXCEPT !.components =
                                 SerializedFittingComponents(fittings[update.entity_id]) ]
    ELSE update

\* refresh_component_payloads_from_reflection, on the outbound queue
refresh_component_payloads_from_reflection ==
    /\ phase = "refresh"
    /\ outbound' = [ i \in 1..Len(outbound) |->
                       [ outbound[i] EXCEPT !.world =
                           [ j \in 1..Len(outbound[i].world) |->
                               RefreshUpdate(outbound[i].world[j]) ] ] ]
    /\ phase' = "broadcast"
    /\ UNCHANGED << envVars, transportVars, sessionVars, worldVars, bootstrapVars,
                    last_tick, state_channel, trace >>
    /\ UNCHANGED outsideVars

----------------------------------------------------------------------------
(* visibility.rs *)

NoContext ==
    [ scope |-> "None", player_entity_id |-> NoPlayer,
      observer_position |-> NoPos, view_range_m |-> 0 ]

AuthenticatedContext(player_entity_id, observer_position) ==
    [ scope |-> "Authenticated", player_entity_id |-> player_entity_id,
      observer_position |-> observer_position, view_range_m |-> DEFAULT_VIEW_RANGE_M ]

\* the context built from the session's claimed default instead of the
\* registry entry
visibility_context_without_registry(client_entity, registry, positions, mode) ==
    IF mode = "none" THEN NoContext
    ELSE AuthenticatedContext(Get(registry, client_entity, "player:a"),
                              Get(positions, Get(registry, client_entity, "player:a"), NoPos))

visibility_context_for_client(client_entity, registry, positions, mode) ==
    IF mode = "none" THEN NoContext
    ELSE IF client_entity \in DOMAIN registry
         THEN AuthenticatedContext(registry[client_entity],
                                   Get(positions, registry[client_entity], NoPos))
         ELSE NoContext

extract_position(properties) ==
    IF "position_m" \in DOMAIN properties /\ Len(properties["position_m"]) = 3
    THEN properties["position_m"]
    ELSE NoPos

\* the owner read from a bare string payload only, not from the envelope
owner_id_from_bare_string(props) ==
    IF props.json = "string" THEN props.value ELSE NoOwner

\* the first string found in the payload: the payload itself, or a value of
\* the envelope object
owner_id_from_component_properties(props) ==
    IF props.json = "string" THEN props.value
    ELSE IF \E k \in DOMAIN props.value : props.value[k].json = "string"
         THEN props.value[CHOOSE k \in DOMAIN props.value :
                                    props.value[k].json = "string"].value
         ELSE NoOwner

entity_is_owned_by(update, player_entity_id) ==
    \E i \in 1..Len(update.components) :
        /\ update.components[i].component_kind = "owner_id"
        /\ owner_id_from_component_properties(update.components[i].properties)
              = player_entity_id

scanner_extension_m(update) ==
    IF "scanner_range_m" \in DOMAIN update.properties
    THEN update.properties["scanner_range_m"]
    ELSE 0

\* the whitelist replaced by the complement of the owner-only list
is_property_not_owner_only(property_name) ==
    property_name \notin OWNER_ONLY_PROPERTIES

is_property_always_visible(property_name) ==
    property_name \in ALWAYS_VISIBLE_PROPERTIES

\* the range comparison turned around
WithinRange_inverted(a, b, range) ==
    (a[1] - b[1]) * (a[1] - b[1]) + (a[2] - b[2]) * (a[2] - b[2])
        + (a[3] - b[3]) * (a[3] - b[3]) >= range * range

\* (a - b).length() <= range, on integer coordinates
WithinRange(a, b, range) ==
    (a[1] - b[1]) * (a[1] - b[1]) + (a[2] - b[2]) * (a[2] - b[2])
        + (a[3] - b[3]) * (a[3] - b[3]) <= range * range

Max(a, b) == IF a >= b THEN a ELSE b

\* the ownership map: the last update of an id decides
Ownership(world, entity_id, player_entity_id) ==
    LET at == { i \in 1..Len(world) : world[i].entity_id = entity_id } IN
    /\ at # {}
    /\ entity_is_owned_by(world[CHOOSE i \in at : \A j \in at : j <= i], player_entity_id)

\* authorization_anchors: position and range of every owned, placed update
AuthorizationAnchors(world, player_entity_id) ==
    { << extract_position(world[i].properties),
         Max(DEFAULT_VIEW_RANGE_M + scanner_extension_m(world[i]), DEFAULT_VIEW_RANGE_M) >> :
        i \in { i \in 1..Len(world) :
                  /\ Ownership(world, world[i].entity_id, player_entity_id)
                  /\ extract_position(world[i].properties) # NoPos } }

Authorized(update, is_owned, anchors) ==
    IF is_owned THEN TRUE
    ELSE IF extract_position(update.properties) # NoPos
         THEN \E anchor \in anchors :
                 WithinRange(extract_position(update.properties), anchor[1], anchor[2])
         ELSE FALSE

\* no focus culling at all
InDeliveryFocus_everything(update, is_owned, ctx) == TRUE

InDeliveryFocus(update, is_owned, ctx) ==
    IF ctx.observer_position # NoPos /\ extract_position(update.properties) # NoPos
    THEN WithinRange(extract_position(update.properties), ctx.observer_position,
                     ctx.view_range_m)
    ELSE is_owned

Redacted(update) ==
    [ update EXCEPT
        !.properties = [ k \in { k \in DOMAIN update.properties :
                                   is_property_always_visible(k) } |->
                           update.properties[k] ],
        !.components = << >> ]

\* what one update of the world contributes to the filtered delta
FilteredUpdate(update, world, player_entity_id, ctx) ==
    LET is_owned == Ownership(world, update.entity_id, player_entity_id)
        anchors == AuthorizationAnchors(world, player_entity_id)
    IN IF update.removed THEN << update >>
       ELSE IF ~Authorized(update, is_owned, anchors) THEN << >>
       ELSE IF ~InDeliveryFocus(update, is_owned, ctx) THEN << >>
       ELSE IF is_owned THEN << update >>
       ELSE IF DOMAIN Redacted(update).properties # {} THEN << Redacted(update) >>
       ELSE << >>

RECURSIVE FilterUpdates(_, _, _, _)
FilterUpdates(rest, world, player_entity_id, ctx) ==
    IF rest = << >> THEN << >>
    ELSE FilteredUpdate(Head(rest), world, player_entity_id, ctx)
         \o FilterUpdates(Tail(rest), world, player_entity_id, ctx)

filter_world_for_client(world, player_entity_id, ctx) ==
    FilterUpdates(world, world, player_entity_id, ctx)

\* Option<WorldStateDelta>
None == [ some |-> FALSE, updates |-> << >> ]
Some(updates) == [ some |-> TRUE, updates |-> updates ]

apply_visibility_filter(world, ctx) ==
    IF ctx.scope = "None" THEN None
    ELSE IF ctx.player_entity_id = NoPlayer THEN None
    ELSE Some(filter_world_for_client(world, ctx.player_entity_id, ctx))

\* a target that addresses no session
delivery_target_for_nobody(ctx, peer_id) == << "None" >>

delivery_target_for_session(ctx, peer_id) ==
    IF ctx.scope = "Authenticated" THEN << "Single", peer_id >> ELSE << "None" >>

----------------------------------------------------------------------------
(* broadcast_replication_state *)

SyntheticRemoval(entity_id) ==
    [ entity_id |-> entity_id, labels |-> {}, properties |-> EmptyMap,
      components |-> << >>, removed |-> TRUE ]

\* the difference taken the wrong way round
Disappeared_reversed(previous_visible, current_visible) ==
    LET ids == IdsInOrder(current_visible \ previous_visible)
    IN [ i \in 1..Len(ids) |-> SyntheticRemoval(ids[i]) ]

\* the leave events appended for previous_visible \ current_visible
Disappeared(previous_visible, current_visible) ==
    LET ids == IdsInOrder(previous_visible \ current_visible)
    IN [ i \in 1..Len(ids) |-> SyntheticRemoval(ids[i]) ]

\* the leave events put before the filtered updates
BroadcastToClient_leave_first(st, queued, client_entity) ==
    LET ctx == visibility_context_for_client(client_entity, visibility_registry,
                                             position_map, visibility_mode)
        filtered_world == apply_visibility_filter(queued.world, ctx)
    IN IF ~filtered_world.some
       THEN [ st EXCEPT !.history = Retain(@, DOMAIN @ \ { client_entity }) ]
       ELSE LET current_visible == VisibleIds(filtered_world.updates)
                previous_visible == Get(st.history, client_entity, {})
            IN [ history |-> Put(st.history, client_entity, current_visible),
                 sent |-> Append(st.sent,
                    [ client_entity |-> client_entity,
                      target |-> delivery_target_for_session(ctx, clients[client_entity]),
                      tick |-> queued.tick,
                      updates |-> Disappeared(previous_visible, current_visible)
                                    \o filtered_world.updates ]) ]

\* one session's share of one queued delta
BroadcastToClient(st, queued, client_entity) ==
    LET ctx == visibility_context_for_client(client_entity, visibility_registry,
                                             position_map, visibility_mode)
        filtered_world == apply_visibility_filter(queued.world, ctx)
    IN IF ~filtered_world.some
       THEN [ st EXCEPT !.history = Retain(@, DOMAIN @ \ { client_entity }) ]
       ELSE LET current_visible == VisibleIds(filtered_world.updates)
                previous_visible == Get(st.history, client_entity, {})
            IN [ history |-> Put(st.history, client_entity, current_visible),
                 sent |-> Append(st.sent,
                    [ client_entity |-> client_entity,
                      target |-> delivery_target_for_session(ctx, clients[client_entity]),
                      tick |-> queued.tick,
                      updates |-> filtered_world.updates
                                    \o Disappeared(previous_visible, current_visible) ]) ]

RECURSIVE BroadcastClients(_, _, _)
BroadcastClients(st, queued, client_set) ==
    IF client_set = {} THEN st
    ELSE LET c == CHOOSE c \in client_set : \A d \in client_set : c <= d
         IN BroadcastClients(BroadcastToClient(st, queued, c), queued, client_set \ { c })

RECURSIVE BroadcastQueue(_, _)
BroadcastQueue(st, queue) ==
    IF queue = << >> THEN st
    ELSE BroadcastQueue(BroadcastClients(st, Head(queue), DOMAIN clients), Tail(queue))

broadcast_replication_state ==
    /\ phase = "broadcast"
    /\ IF outbound = << >>
       THEN UNCHANGED << visibility_history, state_channel, outbound >>
       ELSE LET st == BroadcastQueue(
                         [ history |-> Retain(visibility_history, DOMAIN clients),
                           sent |-> state_channel ], outbound)
            IN /\ visibility_history' = st.history
               /\ state_channel' = st.sent
               /\ outbound' = << >>
    /\ phase' = "end_frame"
    /\ UNCHANGED << envVars, transportVars, bindings, visibility_registry, worldVars,
                    bootstrapVars, last_tick, trace >>
    /\ UNCHANGED outsideVars

\* the frame ends: the transport takes the queued state frames
EndFrame ==
    /\ phase = "end_frame"
    /\ state_channel' = << >>
    /\ phase' = "idle"
    /\ UNCHANGED << envVars, transportVars, sessionVars, worldVars, bootstrapVars,
                    outbound, last_tick, trace >>
    /\ UNCHANGED outsideVars

----------------------------------------------------------------------------
Next ==
    \/ \E remote_id \in RemoteIds : Connect(remote_id)
    \/ \E client_entity \in ClientEntities : Disconnect(client_entity)
    \/ \E client_entity \in ClientEntities, message \in ClientAuthMessages :
          ArriveAuth(client_entity, message)
    \/ \E client_entity \in ClientEntities, message \in ClientInputMessages :
          ArriveInput(client_entity, message)
    \/ \E player_entity_id \in Players : BootstrapListener(player_entity_id)
    \/ FixedStep
    \/ cleanup_client_auth_bindings
    \/ receive_client_auth_messages
    \/ receive_client_inputs
    \/ process_bootstrap_ship_commands
    \/ update_client_controlled_entity_positions
    \/ collect_local_simulation_state
    \/ refresh_component_payloads_from_reflection
    \/ broadcast_replication_state
    \/ EndFrame

Spec == Init /\ [][Next]_vars

----------------------------------------------------------------------------
(* The state channel and the client (sidereal-net, sidereal-client)        *)
(*                                                                         *)
(* One client of player:a connects and sends its auth frame; the server    *)
(* runs its Update chain as above; the frames it sends travel over the     *)
(* StateChannel, which is UnorderedUnreliable: a datagram may be lost and  *)
(* datagrams overtake each other.                                          *)

\* ReplicationStateMessage::from_world: the delta serialized as JSON bytes
from_world(tick, updates) ==
    [ tick |-> tick, world_json |-> << "json", updates >> ]

\* ReplicationStateMessage::decode_world
decode_world(message) ==
    IF message.world_json[1] = "json"
    THEN [ ok |-> TRUE, updates |-> message.world_json[2] ]
    ELSE [ ok |-> FALSE, updates |-> << >> ]

\* the ship the gateway's world snapshot names: the client's ControlledShip
ControlledShipId == "ship:a"

DeliveryClient == 1

InitDelivery ==
    /\ phase = "idle"
    /\ jwt_secret = GatewaySecret
    /\ visibility_mode = "default"
    /\ clients = Put(EmptyMap, DeliveryClient, "peer:1")
    /\ next_client = DeliveryClient + 1
    /\ auth_rx = Put(EmptyMap, DeliveryClient,
                     << [ player_entity_id |-> "player:a",
                          access_token |-> [ signed_with |-> GatewaySecret,
                                             exp |-> "unexpired",
                                             player_entity_id |-> "player:a" ] ] >>)
    /\ input_rx = Put(EmptyMap, DeliveryClient, << >>)
    /\ bindings = [ by_client_entity |-> EmptyMap, by_remote_id |-> EmptyMap ]
    /\ visibility_registry = EmptyMap
    /\ position_map = EmptyMap
    /\ visibility_history = EmptyMap
    /\ \E store \in GraphStores :
         LET hydrated == hydrate_simulation_entities(store) IN
         /\ ships = hydrated.ships
         /\ fittings = hydrated.fittings
         /\ controlled_entity_map = hydrated.map
         /\ bootstrap_applied = DOMAIN hydrated.map
    /\ bootstrap_rx = << >>
    /\ outbound = << >>
    /\ last_tick = 0
    /\ state_channel = << >>
    /\ trace = << >>
    /\ ClientAbsent
    /\ PersistenceAbsent

\* the frame ends: the transport sends the queued state frames; a datagram
\* of the unreliable channel is lost or gets on its way
TransportSend ==
    /\ phase = "end_frame"
    /\ \E sent \in SUBSET { i \in 1..Len(state_channel) :
                               state_channel[i].target = << "Single", clients[DeliveryClient] >> } :
          /\ Cardinality(wire) + Len(client_rx) + Cardinality(sent) <= MaxInFlight
          /\ wire' = wire \cup { from_world(state_channel[i].tick, state_channel[i].updates) :
                                   i \in sent }
    /\ state_channel' = << >>
    /\ phase' = "idle"
    /\ UNCHANGED << envVars, transportVars, sessionVars, worldVars, bootstrapVars,
                    outbound, last_tick, trace, client_rx, remote_registry >>
    /\ UNCHANGED offstageVars

\* a datagram reaches the client, whatever was sent before or after it
Deliver(message) ==
    /\ phase = "idle"
    /\ message \in wire
    /\ wire' = wire \ { message }
    /\ client_rx' = Append(client_rx, message)
    /\ UNCHANGED << phase, envVars, transportVars, sessionVars, worldVars,
                    bootstrapVars, deltaVars, remote_registry >>
    /\ UNCHANGED offstageVars

\* the client system: every received message, every update of it in order.
\* A removed update drops the id from the registry, an update of the
\* controlled ship reconciles it, any other update spawns or refreshes a
\* remote ship; a message that does not decode is skipped.
receive_lightyear_replication_messages ==
    /\ phase = "idle"
    /\ client_rx # << >>
    /\ LET ApplyUpdate(registry, update) ==
               IF update.removed THEN registry \ { update.entity_id }
               ELSE IF update.entity_id = ControlledShipId THEN registry
               ELSE registry \cup { update.entity_id }
           RECURSIVE ApplyUpdates(_, _)
           ApplyUpdates(registry, updates) ==
               IF updates = << >> THEN registry
               ELSE ApplyUpdates(ApplyUpdate(registry, Head(updates)), Tail(updates))
           RECURSIVE ApplyMessages(_, _)
           ApplyMessages(registry, messages) ==
               IF messages = << >> THEN registry
               ELSE LET world == decode_world(Head(messages)) IN
                    ApplyMessages(IF world.ok
                                  THEN ApplyUpdates(registry, world.updates)
                                  ELSE registry,
                                  Tail(messages))
       IN remote_registry' = ApplyMessages(remote_registry, client_rx)
    /\ client_rx' = << >>
    /\ UNCHANGED << phase, envVars, transportVars, sessionVars, worldVars,
                    bootstrapVars, deltaVars, wire >>
    /\ UNCHANGED offstageVars

NextDelivery ==
    \/ \E message \in ClientInputMessages : ArriveInput(DeliveryClient, message)
    \/ FixedStep
    \/ cleanup_client_auth_bindings
    \/ receive_client_auth_messages
    \/ receive_client_inputs
    \/ process_bootstrap_ship_commands
    \/ update_client_controlled_entity_positions
    \/ collect_local_simulation_state
    \/ refresh_component_payloads_from_reflection
    \/ broadcast_replication_state
    \/ TransportSend
    \/ \E message \in wire : Deliver(message)
    \/ receive_lightyear_replication_messages

SpecDelivery == InitDelivery /\ [][NextDelivery]_vars

----------------------------------------------------------------------------
(* The graph store (crates/sidereal-persistence).  The graph holds Entity  *)
(* nodes by entity_id, Component nodes by component_id and HAS_COMPONENT   *)
(* edges; a node is its property bag.  Every Cypher statement is one       *)
(* autocommit query on the connection: a call that fails midway leaves the *)
(* statements before the failing one applied.                              *)

\* a property key keeps its ASCII letters, digits and underscores
clean_key(key) ==
    CASE key = "sidereal_game::generated::components::OwnerId"
           -> "sidereal_gamegeneratedcomponentsOwnerId"
      [] key = "sidereal_game::generated::components::Other"
           -> "sidereal_gamegeneratedcomponentsOther"
      [] OTHER -> key

\* the SET clauses of a JSON value: none unless it is an object
cypher_set_clauses(value) ==
    IF value.json # "object" THEN EmptyMap
    ELSE [ key \in { clean_key(k) : k \in DOMAIN value.value } |->
             value.value[CHOOSE k \in DOMAIN value.value : clean_key(k) = key] ]

\* one statement against the graph
run_cypher(g, statement) ==
    LET Set(node, set) ==
            [ k \in DOMAIN node \cup DOMAIN set |->
                IF k \in DOMAIN set THEN set[k] ELSE node[k] ]
        Linked(entity_id) ==
            { c \in DOMAIN g.components : << entity_id, c >> \in g.has_component }
        DetachDelete(component_ids, entity_ids) ==
            [ entities |-> Retain(g.entities, DOMAIN g.entities \ entity_ids),
              components |-> Retain(g.components, DOMAIN g.components \ component_ids),
              has_component |-> { edge \in g.has_component :
                                    /\ edge[1] \notin entity_ids
                                    /\ edge[2] \notin component_ids } ]
    IN CASE statement.op = "merge_entity" ->
              [ g EXCEPT !.entities =
                  Put(g.entities, statement.entity_id,
                      Set(Get(g.entities, statement.entity_id,
                              [ k \in { "entity_id" } |-> statement.entity_id ]),
                          statement.set)) ]
         [] statement.op = "prune_components" ->
              IF statement.entity_id \in DOMAIN g.entities
              THEN DetachDelete(Linked(statement.entity_id) \ statement.incoming, {})
              ELSE g
         [] statement.op = "merge_component" ->
              [ g EXCEPT !.components =
                  Put(g.components, statement.component_id,
                      Set(Get(g.components, statement.component_id,
                              [ k \in { "component_id" } |-> statement.component_id ]),
                          statement.set)) ]
         [] statement.op = "merge_has_component" ->
              IF /\ statement.entity_id \in DOMAIN g.entities
                 /\ statement.component_id \in DOMAIN g.components
              THEN [ g EXCEPT !.has_component =
                       @ \cup { << statement.entity_id, statement.component_id >> } ]
              ELSE g
         [] statement.op = "remove_entity" ->
              IF statement.entity_id \in DOMAIN g.entities
              THEN DetachDelete(Linked(statement.entity_id), { statement.entity_id })
              ELSE g

RECURSIVE Execute(_, _)
Execute(g, statements) ==
    IF statements = << >> THEN g
    ELSE Execute(run_cypher(g, Head(statements)), Tail(statements))

\* the statements of one record without the prune of stale components
RecordStatements_without_prune(record, tick) ==
    LET RECURSIVE Components(_)
        Components(components) ==
            IF components = << >> THEN << >>
            ELSE << [ op |-> "merge_component",
                      component_id |-> Head(components).component_id,
                      set |-> Put(Put(Put(cypher_set_clauses(Head(components).properties),
                                          "last_tick", tick),
                                      "component_id", Head(components).component_id),
                                  "component_kind", Head(components).component_kind) ],
                    [ op |-> "merge_has_component", entity_id |-> record.entity_id,
                      component_id |-> Head(components).component_id ] >>
                 \o Components(Tail(components))
    IN << [ op |-> "merge_entity", entity_id |-> record.entity_id,
            set |-> Put(Put(cypher_set_clauses(JObject(record.properties)),
                            "last_tick", tick),
                        "sidereal_labels", record.labels) ] >>
       \o Components(record.components)

\* the statements of one record: the entity, the prune of the components
\* that are not incoming, then every component and its edge
RecordStatements(record, tick) ==
    LET ComponentStatements(component) ==
            << [ op |-> "merge_component", component_id |-> component.component_id,
                 set |-> Put(Put(Put(cypher_set_clauses(component.properties),
                                     "last_tick", tick),
                                 "component_id", component.component_id),
                             "component_kind", component.component_kind) ],
               [ op |-> "merge_has_component", entity_id |-> record.entity_id,
                 component_id |-> component.component_id ] >>
        RECURSIVE Components(_)
        Components(components) ==
            IF components = << >> THEN << >>
            ELSE ComponentStatements(Head(components)) \o Components(Tail(components))
    IN << [ op |-> "merge_entity", entity_id |-> record.entity_id,
            set |-> Put(Put(cypher_set_clauses(JObject(record.properties)),
                            "last_tick", tick),
                        "sidereal_labels", record.labels) ],
          [ op |-> "prune_components", entity_id |-> record.entity_id,
            incoming |-> { record.components[i].component_id :
                             i \in 1..Len(record.components) } ] >>
       \o Components(record.components)

RECURSIVE persist_graph_records(_, _)
persist_graph_records(records, tick) ==
    IF records = << >> THEN << >>
    ELSE RecordStatements(Head(records), tick)
         \o persist_graph_records(Tail(records), tick)

\* a removal that deletes the components of the entity and leaves its node
remove_graph_entities_keeping_entity(entity_ids) ==
    [ i \in 1..Len(entity_ids) |->
        [ op |-> "prune_components", entity_id |-> entity_ids[i], incoming |-> {} ] ]

remove_graph_entities(entity_ids) ==
    [ i \in 1..Len(entity_ids) |-> [ op |-> "remove_entity", entity_id |-> entity_ids[i] ] ]

\* persist_world_delta: the statements it runs, the records before the
\* removals
persist_world_delta(updates, tick) ==
    LET removed == SelectSeq(updates, LAMBDA u : u.removed)
        kept == SelectSeq(updates, LAMBDA u : ~u.removed)
    IN persist_graph_records(
           [ i \in 1..Len(kept) |->
               [ entity_id |-> kept[i].entity_id,
                 labels |-> IF kept[i].labels = {} THEN { "Entity" } ELSE kept[i].labels,
                 properties |-> kept[i].properties,
                 components |-> kept[i].components ] ],
           tick)
       \o remove_graph_entities([ i \in 1..Len(removed) |-> removed[i].entity_id ])

\* load_graph_records: one record per Entity node, by entity_id, with the
\* properties of the node and of every Component node linked to it
load_graph_records(g) ==
    [ id \in DOMAIN g.entities |->
        [ entity_id |-> id,
          labels |-> { "Entity" } \cup Get(g.entities[id], "sidereal_labels", {}),
          properties |-> g.entities[id],
          components |->
            [ c \in { c \in DOMAIN g.components : << id, c >> \in g.has_component } |->
                [ component_id |-> c,
                  component_kind |-> g.components[c]["component_kind"],
                  properties |-> JObject(g.components[c]) ] ] ] ]

----------------------------------------------------------------------------
(* The persistence half of the runtime: dirty detection and ingest in      *)
(* collect_local_simulation_state, the refresh of the pending updates,     *)
(* flush_replication_persistence, and a restart of the process on the same *)
(* database.  The session and visibility systems are left out here: they   *)
(* read and write none of this state.                                      *)

\* 1 / PERSISTENCE_POSITION_THRESHOLD, the threshold being 0.05 m
PERSISTENCE_POSITION_THRESHOLD_INV == 20

\* what the persistence half leaves alone
sessionSideVars == << envVars, transportVars, sessionVars, fittings,
                      controlled_entity_map, position_map, bootstrapVars,
                      outbound, state_channel, trace, clientVars, elsewhereVars >>

\* the hull and the hardpoint of player:a, as found in the graph at startup
PersistedWorld ==
    << ShipRecord("ship:a", "player:a", NoOwner, P0),
       HardpointRecord("hardpoint:n", NoOwner, "ship:a") >>

\* every order in which a HashMap may hand out the given keys
Orders(keys) ==
    { order \in [ 1..Cardinality(keys) -> keys ] :
        \A i, j \in 1..Cardinality(keys) : i # j => order[i] # order[j] }

\* (position - last.position).length() > 0.05, positions in whole metres
IsDirty(ship, last_state) ==
    \/ ship.entity_id \notin DOMAIN last_state
    \/ LET a == ship.position
           b == last_state[ship.entity_id].position
       IN PERSISTENCE_POSITION_THRESHOLD_INV * PERSISTENCE_POSITION_THRESHOLD_INV
            * ( (a[1] - b[1]) * (a[1] - b[1]) + (a[2] - b[2]) * (a[2] - b[2])
                + (a[3] - b[3]) * (a[3] - b[3]) ) > 1

\* dirty_updates: the hulls that moved past a threshold since they were
\* last queued, and every hardpoint and module
DirtyUpdates(sh, fit, last_state) ==
    SelectSeq(BroadcastUpdates(sh, fit),
              LAMBDA update : update.entity_id \in DOMAIN sh
                                => IsDirty(sh[update.entity_id], last_state))

\* ingest_world_delta with `has_removals = update.removed` in place of the
\* assignment under `if update.removed`: the flag of the last update
ingest_world_delta_last_flag(known, pending, updates) ==
    LET RECURSIVE Ingest(_, _, _)
        Ingest(k, p, us) ==
            IF us = << >> THEN [ known_entities |-> k, pending_updates |-> p ]
            ELSE Ingest(IF Head(us).removed THEN k \ { Head(us).entity_id }
                        ELSE k \cup { Head(us).entity_id },
                        Put(p, Head(us).entity_id, Head(us)), Tail(us))
        done == Ingest(known, pending, updates)
    IN [ known_entities |-> done.known_entities,
         pending_updates |-> done.pending_updates,
         has_removals |-> updates # << >> /\ updates[Len(updates)].removed ]

RECURSIVE ingest_world_delta(_, _, _)
ingest_world_delta(known, pending, updates) ==
    IF updates = << >>
    THEN [ known_entities |-> known, pending_updates |-> pending, has_removals |-> FALSE ]
    ELSE LET update == Head(updates)
             rest == ingest_world_delta(
                         IF update.removed THEN known \ { update.entity_id }
                         ELSE known \cup { update.entity_id },
                         Put(pending, update.entity_id, update),
                         Tail(updates))
         IN [ rest EXCEPT !.has_removals = @ \/ update.removed ]

\* flush_pending_updates: the ways a call can end.  The map is drained
\* into the batch, then persist_world_delta runs its statements; the call
\* returns Ok after the last one or Err at the first that fails: before
\* any, after the first, after the first record, or on the closing reset.
flush_pending_updates(g, pending, tick) ==
    IF pending = EmptyMap
    THEN { [ graph |-> g, pending_updates |-> pending,
             result |-> [ status |-> "ok", batch |-> EmptyMap, tick |-> tick ] ] }
    ELSE UNION {
           LET batch == [ i \in 1..Len(order) |-> pending[order[i]] ]
               statements == persist_world_delta(batch, tick)
               first == Len(persist_world_delta(<< batch[1] >>, tick))
           IN { [ graph |-> Execute(g, statements), pending_updates |-> EmptyMap,
                  result |-> [ status |-> "ok", batch |-> pending, tick |-> tick ] ] }
              \cup { [ graph |-> Execute(g, SubSeq(statements, 1, k)),
                       pending_updates |-> EmptyMap,
                       result |-> [ status |-> "err", batch |-> pending, tick |-> tick ] ] :
                     k \in { 0, 1, first, Len(statements) } }
           : order \in Orders(DOMAIN pending) }

\* an update with the components serialized from its live entity
RefreshedUpdate(update, sh, fit) ==
    IF update.removed THEN update
    ELSE IF update.entity_id \in DOMAIN sh
         THEN [ update EXCEPT !.components = SerializedShipComponents(sh[update.entity_id]) ]
    ELSE IF update.entity_id \in DOMAIN fit
         THEN [ update EXCEPT !.components =
                                 SerializedFittingComponents(fit[update.entity_id]) ]
    ELSE update

\* hydrate_known_entity_ids
hydrate_known_entity_ids(g) == DOMAIN load_graph_records(g)

\* startup on a database that holds the world as an earlier run persisted
\* it: last_tick 0, the persist interval already elapsed, the snapshot
\* interval just started
InitPersist ==
    /\ phase = "idle"
    /\ jwt_secret = GatewaySecret
    /\ visibility_mode = "default"
    /\ clients = EmptyMap
    /\ next_client = 1
    /\ auth_rx = EmptyMap
    /\ input_rx = EmptyMap
    /\ bindings = [ by_client_entity |-> EmptyMap, by_remote_id |-> EmptyMap ]
    /\ visibility_registry = EmptyMap
    /\ position_map = EmptyMap
    /\ visibility_history = EmptyMap
    /\ LET hydrated == hydrate_simulation_entities(PersistedWorld)
           updates == BroadcastUpdates(hydrated.ships, hydrated.fittings)
       IN /\ ships = hydrated.ships
          /\ fittings = hydrated.fittings
          /\ controlled_entity_map = hydrated.map
          /\ bootstrap_applied = DOMAIN hydrated.map
          /\ graph = Execute(EmptyGraph,
                             persist_world_delta(
                                 [ i \in 1..Len(updates) |->
                                     RefreshedUpdate(updates[i], hydrated.ships,
                                                     hydrated.fittings) ],
                                 1))
    /\ bootstrap_rx = << >>
    /\ outbound = << >>
    /\ state_channel = << >>
    /\ trace = << >>
    /\ ClientAbsent
    /\ ElsewhereAbsent
    /\ snapshot_markers = << >>
    /\ last_tick = 0
    /\ pending_updates = EmptyMap
    /\ known_entities = hydrate_known_entity_ids(graph)
    /\ last_persisted_state = EmptyMap
    /\ persist_elapsed = TRUE
    /\ snapshot_elapsed = FALSE
    /\ persist_result = NoResult
    /\ runtime_init = "inserted"

\* what the restart leaves beside the world and the runtime
restartSideVars == << envVars, transportVars, sessionVars, position_map, bootstrapVars,
                      outbound, state_channel, trace, clientVars, elsewhereVars >>

\* the runtime resource exists: init_replication_runtime reached its
\* insert_non_send_resource
RuntimeInserted == runtime_init # "connect failed"

\* the process stops and starts again on the same database.  Each startup
\* system opens a connection of its own.  init_replication_runtime inserts
\* the runtime unless connect or ensure_schema fails, and then it logs and
\* returns; a failed load of the known ids is logged and leaves the cache
\* empty.  hydrate_simulation_entities spawns the persisted world, each hull
\* where the graph has it, unless its own connection or load fails.
init_replication_runtime ==
    /\ phase = "idle"
    /\ LET hydrated == hydrate_simulation_entities(PersistedWorld) IN
       \E world_loaded \in BOOLEAN :
         IF world_loaded
         THEN /\ ships' = [ id \in DOMAIN hydrated.ships \cap DOMAIN graph.entities |->
                              [ hydrated.ships[id] EXCEPT
                                  !.position = graph.entities[id]["position_m"] ] ]
              /\ fittings' = hydrated.fittings
              /\ controlled_entity_map' = hydrated.map
         ELSE /\ ships' = EmptyMap
              /\ fittings' = EmptyMap
              /\ controlled_entity_map' = EmptyMap
    /\ \E outcome \in { "inserted", "initial graph load failed", "connect failed" } :
         /\ runtime_init' = IF outcome = "connect failed" THEN outcome ELSE "inserted"
         /\ known_entities' = IF outcome = "inserted"
                              THEN hydrate_known_entity_ids(graph) ELSE {}
         /\ persist_elapsed' = (outcome # "connect failed")
    /\ last_tick' = 0
    /\ pending_updates' = EmptyMap
    /\ last_persisted_state' = EmptyMap
    /\ snapshot_elapsed' = FALSE
    /\ persist_result' = NoResult
    /\ UNCHANGED << phase, storeVars, restartSideVars >>

\* the clock passes the end of the persist or of the snapshot interval
IntervalElapses ==
    /\ phase = "idle"
    /\ RuntimeInserted
    /\ \/ persist_elapsed' = TRUE /\ UNCHANGED snapshot_elapsed
       \/ snapshot_elapsed' = TRUE /\ UNCHANGED persist_elapsed
    /\ UNCHANGED << phase, ships, last_tick, storeVars, pending_updates,
                    known_entities, last_persisted_state, persist_result,
                    runtime_init, sessionSideVars >>

\* FixedUpdate: the physics step leaves a hull where it is or moves it
PhysicsStep ==
    /\ phase = "idle"
    /\ \/ \E id \in DOMAIN ships, pos \in Positions :
            ships' = [ ships EXCEPT ![id].position = pos ]
       \/ ships = EmptyMap /\ UNCHANGED ships
    /\ phase' = "collect"
    /\ UNCHANGED << last_tick, offstageVars, sessionSideVars >>

\* collect_local_simulation_state, the persistence half: the dirty check
\* of every hull, the tick, the ingest of the dirty delta and the flush
\* forced by a removal
collect_dirty_updates ==
    /\ phase = "collect"
    /\ RuntimeInserted
    /\ LET broadcast_updates == BroadcastUpdates(ships, fittings)
           dirty_updates == DirtyUpdates(ships, fittings, last_persisted_state)
           dirty_ships == { id \in DOMAIN ships : IsDirty(ships[id], last_persisted_state) }
           tick == SaturatingAdd1(last_tick)
           ingested == ingest_world_delta(known_entities, pending_updates, dirty_updates)
       IN /\ last_persisted_state' =
                [ id \in DOMAIN last_persisted_state \cup dirty_ships |->
                    IF id \in dirty_ships
                    THEN [ position |-> ships[id].position,
                           velocity |-> << 0, 0, 0 >>, health |-> 100 ]
                    ELSE last_persisted_state[id] ]
          /\ IF broadcast_updates = << >>
             THEN UNCHANGED << last_tick, graph, pending_updates, known_entities,
                               persist_elapsed, persist_result >>
             ELSE /\ last_tick' = tick
                  /\ known_entities' = ingested.known_entities
                  /\ IF ingested.has_removals /\ ingested.pending_updates # EmptyMap
                     THEN \E flushed \in flush_pending_updates(
                                            graph, ingested.pending_updates, tick) :
                            /\ graph' = flushed.graph
                            /\ pending_updates' = flushed.pending_updates
                            /\ persist_result' = flushed.result
                            /\ persist_elapsed' =
                                 IF flushed.result.status = "ok" THEN FALSE
                                 ELSE persist_elapsed
                     ELSE /\ pending_updates' = ingested.pending_updates
                          /\ UNCHANGED << graph, persist_elapsed, persist_result >>
    /\ phase' = "refresh"
    /\ UNCHANGED << ships, snapshot_markers, snapshot_elapsed, runtime_init,
                    sessionSideVars >>

\* collect_local_simulation_state, refresh_component_payloads_from_reflection
\* and flush_replication_persistence without the runtime resource: each
\* returns at its first line
frame_without_runtime ==
    /\ phase \in { "collect", "refresh", "flush" }
    /\ ~RuntimeInserted
    /\ phase' = CASE phase = "collect" -> "refresh"
                  [] phase = "refresh" -> "flush"
                  [] phase = "flush" -> "idle"
    /\ UNCHANGED << ships, last_tick, storeVars, runtimeVars, sessionSideVars >>

\* refresh_component_payloads_from_reflection, on the pending updates
refresh_pending_updates ==
    /\ phase = "refresh"
    /\ RuntimeInserted
    /\ pending_updates' = [ id \in DOMAIN pending_updates |->
                              RefreshedUpdate(pending_updates[id], ships, fittings) ]
    /\ phase' = "flush"
    /\ UNCHANGED << ships, last_tick, storeVars, known_entities, last_persisted_state,
                    persist_elapsed, snapshot_elapsed, persist_result,
                    runtime_init, sessionSideVars >>

\* flush_replication_persistence: the flush of the pending updates when the
\* persist interval has elapsed, then the snapshot marker when the snapshot
\* interval has; either database call may fail
flush_replication_persistence ==
    /\ phase = "flush"
    /\ RuntimeInserted
    /\ LET should_flush == persist_elapsed /\ pending_updates # EmptyMap IN
       \E flushed \in ( IF should_flush
                        THEN flush_pending_updates(graph, pending_updates, last_tick)
                        ELSE { [ graph |-> graph, pending_updates |-> pending_updates,
                                 result |-> persist_result ] } ) :
         /\ graph' = flushed.graph
         /\ pending_updates' = flushed.pending_updates
         /\ persist_result' = flushed.result
         /\ persist_elapsed' = IF should_flush /\ flushed.result.status = "ok"
                               THEN FALSE ELSE persist_elapsed
    /\ \E inserted \in BOOLEAN :
         IF snapshot_elapsed /\ inserted /\ Len(snapshot_markers) < MaxMarkers
         THEN /\ snapshot_markers' =
                   Append(snapshot_markers,
                          [ snapshot_tick |-> last_tick,
                            entity_count |-> Cardinality(known_entities) ])
              /\ snapshot_elapsed' = FALSE
         ELSE UNCHANGED << snapshot_markers, snapshot_elapsed >>
    /\ phase' = "idle"
    /\ UNCHANGED << ships, last_tick, known_entities, last_persisted_state,
                    runtime_init, sessionSideVars >>

NextPersist ==
    \/ init_replication_runtime
    \/ IntervalElapses
    \/ PhysicsStep
    \/ collect_dirty_updates
    \/ frame_without_runtime
    \/ refresh_pending_updates
    \/ flush_replication_persistence

SpecPersist == InitPersist /\ [][NextPersist]_vars

----------------------------------------------------------------------------
(* The ingest of collect_local_simulation_state driven with a dirty delta  *)
(* of any content, removals included (the delta the function builds from   *)
(* the queries holds none), followed by the rest of the frame.             *)

\* dirty deltas: an update, a removal, and both in either order
DirtyDeltas ==
    LET hull == ShipDelta(hydrate_simulation_entities(PersistedWorld).ships["ship:a"])
    IN { << hull >>,
         << SyntheticRemoval("hardpoint:n") >>,
         << SyntheticRemoval("hardpoint:n"), hull >>,
         << hull, SyntheticRemoval("ship:a") >> }

\* collect_local_simulation_state from the tick on: the tick advances, the
\* dirty delta is ingested, and a removal in it forces the flush
ingest_dirty_world(dirty_updates) ==
    /\ phase = "idle"
    /\ RuntimeInserted
    /\ LET tick == SaturatingAdd1(last_tick)
           ingested == ingest_world_delta(known_entities, pending_updates, dirty_updates)
       IN /\ last_tick' = tick
          /\ known_entities' = ingested.known_entities
          /\ IF ingested.has_removals /\ ingested.pending_updates # EmptyMap
             THEN \E flushed \in flush_pending_updates(
                                    graph, ingested.pending_updates, tick) :
                    /\ graph' = flushed.graph
                    /\ pending_updates' = flushed.pending_updates
                    /\ persist_result' = flushed.result
                    /\ persist_elapsed' =
                         IF flushed.result.status = "ok" THEN FALSE
                         ELSE persist_elapsed
             ELSE /\ pending_updates' = ingested.pending_updates
                  /\ UNCHANGED << graph, persist_elapsed, persist_result >>
    /\ phase' = "refresh"
    /\ UNCHANGED << ships, snapshot_markers, snapshot_elapsed, last_persisted_state,
                    runtime_init, sessionSideVars >>

NextIngest ==
    \/ IntervalElapses
    \/ \E dirty_updates \in DirtyDeltas : ingest_dirty_world(dirty_updates)
    \/ refresh_pending_updates
    \/ flush_replication_persistence

SpecIngest == InitPersist /\ [][NextIngest]_vars

----------------------------------------------------------------------------
(* The persistence half as it runs on: the systems of a frame follow one   *)
(* another and the persist interval keeps elapsing.  Whether the database  *)
(* call of a flush returns, and with what, is up to the store.             *)

\* the clock passes the end of the persist interval
PersistIntervalElapses == IntervalElapses /\ persist_elapsed'

\* FixedUpdate for a hull that comes to rest: it moves during the first
\* ticks and stays where it is from then on
PhysicsStepToRest == PhysicsStep /\ (last_tick >= MaxTick => ships' = ships)

\* the snapshot interval is left running: no marker is written
NextPersistLive ==
    \/ PersistIntervalElapses
    \/ PhysicsStepToRest
    \/ collect_dirty_updates
    \/ refresh_pending_updates
    \/ flush_replication_persistence

SpecPersistLive ==
    /\ InitPersist
    /\ [][NextPersistLive]_vars
    /\ WF_vars(PhysicsStepToRest)
    /\ WF_vars(collect_dirty_updates)
    /\ WF_vars(refresh_pending_updates)
    /\ SF_vars(PersistIntervalElapses)

----------------------------------------------------------------------------
(* The store driven through its API alone: any caller, any sequence of     *)
(* persist_world_delta calls that return Ok, on a graph that starts empty  *)
(* (tests/lifecycle.rs of the crate).                                      *)

\* updates a batch takes
MaxBatch == 2

serverVars == << phase, envVars, transportVars, sessionVars, worldVars,
                 bootstrapVars, deltaVars >>

\* no replication server runs
ServerAbsent ==
    /\ phase = "idle"
    /\ jwt_secret = ""
    /\ visibility_mode = "default"
    /\ clients = EmptyMap
    /\ next_client = 1
    /\ auth_rx = EmptyMap
    /\ input_rx = EmptyMap
    /\ bindings = [ by_client_entity |-> EmptyMap, by_remote_id |-> EmptyMap ]
    /\ visibility_registry = EmptyMap
    /\ position_map = EmptyMap
    /\ visibility_history = EmptyMap
    /\ controlled_entity_map = EmptyMap
    /\ ships = EmptyMap
    /\ fittings = EmptyMap
    /\ bootstrap_rx = << >>
    /\ bootstrap_applied = {}
    /\ outbound = << >>
    /\ last_tick = 0
    /\ state_channel = << >>
    /\ trace = << >>

RuntimeAbsent ==
    /\ pending_updates = EmptyMap
    /\ known_entities = {}
    /\ last_persisted_state = EmptyMap
    /\ persist_elapsed = FALSE
    /\ snapshot_elapsed = FALSE
    /\ persist_result = NoResult
    /\ runtime_init = "none"

StoreEntities == { "ship:x", "ship:y" }
StoreKinds == { "display_name", "health_pool" }

\* a component of an entity, its id in the "{entity_id}:{kind}" form every
\* writer uses, its payload a plain object
StoreComponent(entity_id, kind) ==
    [ component_id |-> << entity_id, kind >>,
      component_kind |-> kind,
      properties |-> JObject([ k \in { "value" } |-> JString(kind) ]) ]

\* WorldDeltaEntity values: an upsert with any of the components, or a
\* removal
StoreUpdates ==
    { [ entity_id |-> id, labels |-> { "Entity", "Ship" },
        properties |-> [ k \in { "name" } |-> "ISS Persistence" ],
        components |-> [ i \in 1..Len(kinds) |-> StoreComponent(id, kinds[i]) ],
        removed |-> FALSE ] :
        id \in StoreEntities,
        kinds \in { << >>, << "display_name" >>, << "health_pool" >>,
                    << "display_name", "health_pool" >> } }
    \cup { [ entity_id |-> id, labels |-> {}, properties |-> EmptyMap,
             components |-> << >>, removed |-> TRUE ] : id \in StoreEntities }

StoreBatches == UNION { [ 1..n -> StoreUpdates ] : n \in 1..MaxBatch }

\* what the caller has reported of each entity, update after update: its
\* latest update was a removal, the components of its latest upsert, and
\* the components of earlier upserts that the latest one no longer has
RECURSIVE Report(_, _)
Report(history, updates) ==
    IF updates = << >> THEN history
    ELSE LET update == Head(updates)
             id == update.entity_id
             before == Get(history, id, [ removed |-> FALSE, components |-> {},
                                          dropped |-> {} ])
             incoming == { update.components[i].component_id :
                             i \in 1..Len(update.components) }
         IN Report(Put(history, id,
                       IF update.removed THEN [ before EXCEPT !.removed = TRUE ]
                       ELSE [ removed |-> FALSE, components |-> incoming,
                              dropped |-> (before.dropped \cup before.components)
                                            \ incoming ]),
                   Tail(updates))

InitStore ==
    /\ ServerAbsent
    /\ ClientAbsent
    /\ RuntimeAbsent
    /\ graph = EmptyGraph
    /\ snapshot_markers = << >>
    /\ reported = EmptyMap
    /\ BootstrapStoreAbsent
    /\ GatewayAbsent
    /\ StandaloneAbsent

\* a call of persist_world_delta that returns Ok
PersistWorldDelta(updates, tick) ==
    /\ graph' = Execute(graph, persist_world_delta(updates, tick))
    /\ reported' = Report(reported, updates)
    /\ UNCHANGED << serverVars, clientVars, snapshot_markers, runtimeVars,
                    bootstrapStoreVars, gatewayVars, standaloneVars >>

\* the tick of the caller is stored and read by nothing: every call is at
\* tick 1
NextStore ==
    \E updates \in StoreBatches : PersistWorldDelta(updates, 1)

SpecStore == InitStore /\ [][NextStore]_vars

----------------------------------------------------------------------------
(* The control listener thread (start_replication_control_listener) and    *)
(* the bootstrap store (bootstrap.rs): UDP payloads of the gateway, each   *)
(* delivered any number of times, processed one after the other.           *)

\* payloads the listener processes without a storage error
MaxEvents == 4

Accounts == { "a", "b" }

\* format!("player:{account_id}")
PlayerOfAccount(account_id) == IF account_id = "a" THEN "player:a" ELSE "player:b"

\* format!("ship:{account_id}")
ShipOfAccount(account_id) == IF account_id = "a" THEN "ship:a" ELSE "ship:b"

\* BootstrapWireMessage values: the payload of each account, one of an
\* unknown kind, one whose account_id is no uuid and one whose
\* player_entity_id is not that of the account
BootstrapWireMessages ==
    { [ kind |-> "bootstrap_player", account_id |-> a,
        player_entity_id |-> PlayerOfAccount(a) ] : a \in Accounts }
    \cup { [ kind |-> "bootstrap_ship", account_id |-> "a", player_entity_id |-> "player:a" ],
           [ kind |-> "bootstrap_player", account_id |-> "not-a-uuid",
             player_entity_id |-> "player:not-a-uuid" ],
           [ kind |-> "bootstrap_player", account_id |-> "a",
             player_entity_id |-> "player:wrong" ] }

\* try_from without the comparison of player_entity_id
ValidCommand_any_player(message) ==
    /\ message.kind = "bootstrap_player"
    /\ message.account_id \in Accounts

\* BootstrapCommand::try_from: is the message a command
ValidCommand(message) ==
    /\ message.kind = "bootstrap_player"
    /\ message.account_id \in Accounts
    /\ message.player_entity_id = PlayerOfAccount(message.account_id)

\* apply_bootstrap_if_absent with a plain INSERT in place of ON CONFLICT
\* DO NOTHING
apply_bootstrap_always(rows, events, command) ==
    [ rows |-> Append(rows, [ account_id |-> command.account_id,
                              player_entity_id |-> command.player_entity_id ]),
      events |-> Append(events, [ account_id |-> command.account_id,
                                  player_entity_id |-> command.player_entity_id,
                                  applied |-> TRUE ]),
      applied |-> TRUE ]

\* apply_bootstrap_if_absent, the committed transaction: the dedup row is
\* inserted unless the account has one, and the event row records which
apply_bootstrap_if_absent(rows, events, command) ==
    LET inserted == \A i \in 1..Len(rows) : rows[i].account_id # command.account_id
    IN [ rows |-> IF inserted
                  THEN Append(rows, [ account_id |-> command.account_id,
                                      player_entity_id |-> command.player_entity_id ])
                  ELSE rows,
         events |-> Append(events, [ account_id |-> command.account_id,
                                     player_entity_id |-> command.player_entity_id,
                                     applied |-> inserted ]),
         applied |-> inserted ]

\* the starter world of bootstrap_starter_ship (properties abbreviated)
StarterWorld(account_id) ==
    << [ entity_id |-> PlayerOfAccount(account_id),
         labels |-> { "Entity", "Player" },
         properties |-> [ k \in { "owner_account_id", "player_entity_id" } |->
                            IF k = "owner_account_id" THEN account_id
                            ELSE PlayerOfAccount(account_id) ],
         components |-> << [ component_id |-> << PlayerOfAccount(account_id), "display_name" >>,
                             component_kind |-> "display_name",
                             properties |-> JObject([ k \in { "value" } |-> JString("Pilot") ]) ] >>,
         removed |-> FALSE ],
       [ entity_id |-> ShipOfAccount(account_id),
         labels |-> { "Entity", "Ship" },
         properties |-> [ k \in { "owner_account_id", "player_entity_id", "position_m" } |->
                            CASE k = "owner_account_id" -> account_id
                              [] k = "player_entity_id" -> PlayerOfAccount(account_id)
                              [] OTHER -> P0 ],
         components |-> << [ component_id |-> << ShipOfAccount(account_id), "display_name" >>,
                             component_kind |-> "display_name",
                             properties |-> JObject([ k \in { "value" } |-> JString("Corvette") ]) ],
                           [ component_id |-> << ShipOfAccount(account_id), "health_pool" >>,
                             component_kind |-> "health_pool",
                             properties |-> JObject([ k \in { "hp" } |-> JString("100") ]) ] >>,
         removed |-> FALSE ] >>

\* bootstrap_starter_ship: the ways the call can end.  Ok after the whole
\* starter world is persisted at tick 0; Err when the connection fails, or
\* at a statement of persist_world_delta, the earlier ones applied.
bootstrap_starter_ship(g, account_id) ==
    LET statements == persist_world_delta(StarterWorld(account_id), 0)
        first == Len(persist_world_delta(<< StarterWorld(account_id)[1] >>, 0))
    IN { [ graph |-> Execute(g, statements), ok |-> TRUE ] }
       \cup { [ graph |-> Execute(g, SubSeq(statements, 1, k)), ok |-> FALSE ] :
              k \in { 0, first } }

InitBootstrap ==
    /\ ServerAbsent
    /\ ClientAbsent
    /\ RuntimeAbsent
    /\ graph = EmptyGraph
    /\ snapshot_markers = << >>
    /\ reported = EmptyMap
    /\ dedup_rows = << >>
    /\ bootstrap_events = << >>
    /\ GatewayAbsent
    /\ StandaloneAbsent

\* one datagram of the control socket: handle_payload, and for a payload
\* that was applied the starter world and the spawn command.  A payload
\* that is rejected, or whose transaction fails, changes nothing.
ControlListener(message) ==
    /\ Len(bootstrap_events) < MaxEvents
    /\ \/ /\ ~ValidCommand(message)
          /\ UNCHANGED << graph, bootstrap_rx, bootstrap_applied, bootstrapStoreVars >>
       \/ /\ ValidCommand(message)
          /\ UNCHANGED << graph, bootstrap_rx, bootstrap_applied, bootstrapStoreVars >>
       \/ /\ ValidCommand(message)
          /\ LET result == apply_bootstrap_if_absent(dedup_rows, bootstrap_events, message) IN
             /\ dedup_rows' = result.rows
             /\ bootstrap_events' = result.events
             /\ bootstrap_applied' = { result.rows[i].player_entity_id :
                                         i \in 1..Len(result.rows) }
             /\ IF result.applied
                THEN \E world \in bootstrap_starter_ship(graph, message.account_id) :
                       /\ graph' = world.graph
                       /\ bootstrap_rx' =
                            IF world.ok
                            THEN Append(bootstrap_rx,
                                        [ player_entity_id |-> message.player_entity_id,
                                          ship_entity_id |-> ShipOfAccount(message.account_id) ])
                            ELSE bootstrap_rx
                ELSE UNCHANGED << graph, bootstrap_rx >>
    /\ UNCHANGED << phase, envVars, transportVars, sessionVars, worldVars, deltaVars,
                    clientVars, snapshot_markers, runtimeVars, reported,
                    gatewayVars, standaloneVars >>

NextBootstrap ==
    \E message \in BootstrapWireMessages : ControlListener(message)

SpecBootstrap == InitBootstrap /\ [][NextBootstrap]_vars

----------------------------------------------------------------------------
(* The listener thread next to the main loop: the thread sends on the      *)
(* mpsc channel at any point of a frame, and the frame reaches             *)
(* process_bootstrap_ship_commands once.  A send that falls inside the     *)
(* try_recv loop is received by this loop or left for the next one, which  *)
(* is a send before or after the loop.                                     *)

InitSpawn == InitBootstrap

\* the systems of a frame that run before process_bootstrap_ship_commands:
\* none of them reads the channel, spawns a ship or writes the map
systems_before_bootstrap ==
    /\ phase = "idle"
    /\ phase' = "process_bootstrap"
    /\ UNCHANGED << envVars, transportVars, sessionVars, worldVars, bootstrapVars,
                    deltaVars >>
    /\ UNCHANGED outsideVars

\* the systems that run after it, to the end of the frame
systems_after_bootstrap ==
    /\ phase = "update_positions"
    /\ phase' = "idle"
    /\ UNCHANGED << envVars, transportVars, sessionVars, worldVars, bootstrapVars,
                    deltaVars >>
    /\ UNCHANGED outsideVars

NextSpawn ==
    \/ \E message \in BootstrapWireMessages : ControlListener(message)
    \/ systems_before_bootstrap
    \/ process_bootstrap_ship_commands
    \/ systems_after_bootstrap

SpecSpawn == InitSpawn /\ [][NextSpawn]_vars

----------------------------------------------------------------------------
(* The gateway's register and login handlers (AuthService), on their own.  *)
(* A handler runs up to its next await on the dispatcher or on the token   *)
(* store, where the handlers of other requests interleave.  What the       *)
(* receiver of a bootstrap command does with it is SpecBootstrap.          *)

\* requests the gateway serves in one run
MaxRequests == 3

MIN_PASSWORD_LEN == 12

RequestEmails == { "pilot@example.com", " Pilot@Example.COM ", "ace@example.com", "pilot" }

RequestPasswords == { "very-strong-password", "short" }

\* email.trim().to_ascii_lowercase(), then validate_email
normalize_email(email) ==
    LET normalized == CASE email = " Pilot@Example.COM " -> "pilot@example.com"
                        [] OTHER -> email
    IN  [ ok |-> normalized # "pilot", email |-> normalized ]

\* password.len()
PasswordLen(password) ==
    CASE password = "very-strong-password" -> 20
      [] password = "brand-new-password" -> 18
      [] password = "short" -> 5

validate_password(password) ==
    /\ ~(PasswordLen(password) < MIN_PASSWORD_LEN)
    /\ ~(PasswordLen(password) > 128)

\* the argon2 hash, without its salt
hash_password(password) == [ algorithm |-> "argon2id", password |-> password ]

verify_password(password, hash) == hash = hash_password(password)

\* ApiError::from(AuthError)
StatusOf(error) ==
    CASE error = "" -> 200
      [] error = "Validation" -> 400
      [] error = "Unauthorized" -> 401
      [] error = "Conflict" -> 409
      [] error = "Internal" -> 500

\* a handler that has returned
Returned(kind, email, account_id, error) ==
    [ kind |-> kind, email |-> email, account_id |-> account_id, pc |-> "done",
      error |-> error, status |-> StatusOf(error) ]

\* a handler waiting at an await
Awaiting(kind, email, account_id, pc) ==
    [ kind |-> kind, email |-> email, account_id |-> account_id, pc |-> pc,
      error |-> "", status |-> 0 ]

AccountIdsInUse == { auth_accounts[email].account_id : email \in DOMAIN auth_accounts }

\* the mutant: the insert replaces the row of an email that is taken
create_account_replacing(accounts, email, password_hash, account_id) ==
    [ error |-> "",
      accounts |-> Put(accounts, email,
                       [ account_id |-> account_id, email |-> email,
                         password_hash |-> password_hash,
                         player_entity_id |-> PlayerOfAccount(account_id) ]) ]

\* AuthStore::create_account: the insert, refused by the UNIQUE email column
create_account(accounts, email, password_hash, account_id) ==
    IF email \in DOMAIN accounts
    THEN [ error |-> "Conflict", accounts |-> accounts ]
    ELSE [ error |-> "",
           accounts |-> Put(accounts, email,
                            [ account_id |-> account_id, email |-> email,
                              password_hash |-> password_hash,
                              player_entity_id |-> PlayerOfAccount(account_id) ]) ]

InitGateway ==
    /\ ServerAbsent
    /\ ClientAbsent
    /\ RuntimeAbsent
    /\ graph = EmptyGraph
    /\ snapshot_markers = << >>
    /\ reported = EmptyMap
    /\ BootstrapStoreAbsent
    /\ auth_accounts = EmptyMap
    /\ bootstrap_commands = << >>
    /\ handlers = << >>
    /\ TokensAbsent
    /\ StandaloneAbsent

\* everything but the accounts, the dispatcher and the handlers
besideGatewayVars == << serverVars, clientVars, storeVars, runtimeVars, reported,
                        bootstrapStoreVars, tokenVars, standaloneVars >>

\* POST /auth/register up to the await on the dispatcher.  Uuid::new_v4()
\* draws an id no account has.
register(email, password) ==
    /\ Len(handlers) < MaxRequests
    /\ LET normalized == normalize_email(email) IN
       \/ /\ ~normalized.ok \/ ~validate_password(password)
          /\ handlers' = Append(handlers, Returned("register", normalized.email, "", "Validation"))
          /\ UNCHANGED auth_accounts
       \/ /\ normalized.ok
          /\ validate_password(password)
          /\ handlers' = Append(handlers, Returned("register", normalized.email, "", "Internal"))
          /\ UNCHANGED auth_accounts
       \/ /\ normalized.ok
          /\ validate_password(password)
          /\ \E account_id \in Accounts :
                /\ normalized.email \in DOMAIN auth_accounts \/ account_id \notin AccountIdsInUse
                /\ LET created == create_account(auth_accounts, normalized.email,
                                                 hash_password(password), account_id)
                   IN  /\ auth_accounts' = created.accounts
                       /\ handlers' =
                            Append(handlers,
                                   IF created.error # ""
                                   THEN Returned("register", normalized.email, "", created.error)
                                   ELSE Awaiting("register", normalized.email, account_id, "dispatch"))
    /\ UNCHANGED << bootstrap_commands, besideGatewayVars >>

\* BootstrapDispatcher::dispatch returns to register: the command has gone
\* out, or the send or the starter world write has failed
dispatch(i) ==
    /\ handlers[i].pc = "dispatch"
    /\ \E sent \in BOOLEAN :
          /\ bootstrap_commands' =
                Append(bootstrap_commands,
                       [ account_id |-> handlers[i].account_id,
                         player_entity_id |-> PlayerOfAccount(handlers[i].account_id),
                         sent |-> sent ])
          /\ handlers' =
                [ handlers EXCEPT ![i] =
                    IF sent
                    THEN Awaiting(@.kind, @.email, @.account_id, "issue_tokens")
                    ELSE Returned(@.kind, @.email, @.account_id, "Internal") ]
    /\ UNCHANGED << auth_accounts, besideGatewayVars >>

\* POST /auth/login up to issue_tokens
login(email, password) ==
    /\ Len(handlers) < MaxRequests
    /\ LET normalized == normalize_email(email) IN
       handlers' \in
         { Append(handlers, handler) : handler \in
             IF ~normalized.ok
             THEN { Returned("login", normalized.email, "", "Validation") }
             ELSE { Returned("login", normalized.email, "", "Internal") } \cup
                  ( IF normalized.email \notin DOMAIN auth_accounts
                    THEN { Returned("login", normalized.email, "", "Unauthorized") }
                    ELSE IF ~verify_password(password,
                                             auth_accounts[normalized.email].password_hash)
                    THEN { Returned("login", normalized.email, "", "Unauthorized") }
                    ELSE { Awaiting("login", normalized.email,
                                    auth_accounts[normalized.email].account_id,
                                    "issue_tokens") } ) }
    /\ UNCHANGED << auth_accounts, bootstrap_commands, besideGatewayVars >>

\* issue_tokens returns the tokens, or the error of the store
issue_tokens(i) ==
    /\ handlers[i].pc = "issue_tokens"
    /\ \E error \in { "", "Internal" } :
          handlers' = [ handlers EXCEPT ![i] =
                          Returned(@.kind, @.email, @.account_id, error) ]
    /\ UNCHANGED << auth_accounts, bootstrap_commands, besideGatewayVars >>

NextGateway ==
    \/ \E email \in RequestEmails, password \in RequestPasswords : register(email, password)
    \/ \E email \in RequestEmails, password \in RequestPasswords : login(email, password)
    \/ \E i \in 1..Len(handlers) : dispatch(i)
    \/ \E i \in 1..Len(handlers) : issue_tokens(i)

SpecGateway == InitGateway /\ [][NextGateway]_vars

----------------------------------------------------------------------------
(* The token endpoints of the gateway (login, refresh, me, password reset)  *)
(* for one registered account, with the clock.  Each handler is one step;  *)
(* a store call that fails ends it with Internal and keeps what the calls  *)
(* before it have written.                                                  *)

\* steps the clock takes
MaxClock == 2
\* opaque tokens (refresh and reset) the gateway generates
MaxTokens == 2

\* seconds the clock advances in one step
CLOCK_STEP_S == 60
\* AuthConfig: GATEWAY_ACCESS_TOKEN_TTL_S, GATEWAY_REFRESH_TOKEN_TTL_S and
\* GATEWAY_RESET_TOKEN_TTL_S, all set to 30
TOKEN_TTL_S == 30
\* Validation::new leaves the leeway of jsonwebtoken at its default
JWT_LEEWAY_S == 60

PilotEmail == "pilot@example.com"

TokenPasswords == { "very-strong-password", "brand-new-password", "short" }

\* hex of the SHA-256 digest
hash_token(token) == << "sha256", token >>

\* generate_opaque_token(): 32 random bytes, never one drawn before
FreshToken == Cardinality({ t \in issued_tokens : t.kind # "access" }) + 1

\* the access tokens a client can present: those issued, and one signed
\* with a foreign key
PresentableAccessTokens ==
    { [ signed_with |-> GatewaySecret, sub |-> t.account_id, exp |-> t.exp ] :
        t \in { u \in issued_tokens : u.kind = "access" } }
    \cup { [ signed_with |-> ForgedSecret, sub |-> "a", exp |-> MaxClock * CLOCK_STEP_S ] }

\* the mutant: decode with the leeway set to zero
AuthService_decode_access_token_strict(token, now) ==
    token.signed_with = GatewaySecret /\ token.exp >= now

\* AuthService::decode_access_token: HS256 signature and exp, which
\* jsonwebtoken accepts while exp >= now - leeway
AuthService_decode_access_token(token, now) ==
    token.signed_with = GatewaySecret /\ token.exp >= now - JWT_LEEWAY_S

\* the mutant: the row is read and left in the table
consume_token_keeping(table, token_hash) ==
    [ record |-> IF token_hash \in DOMAIN table
                 THEN [ some |-> TRUE, account_id |-> table[token_hash].account_id,
                        expires_at_epoch_s |-> table[token_hash].expires_at_epoch_s ]
                 ELSE [ some |-> FALSE, account_id |-> "", expires_at_epoch_s |-> 0 ],
      table |-> table ]

\* consume_refresh_token and consume_password_reset_token:
\* DELETE ... WHERE token_hash = $1 RETURNING account_id, expires_at_epoch_s
consume_token(table, token_hash) ==
    [ record |-> IF token_hash \in DOMAIN table
                 THEN [ some |-> TRUE, account_id |-> table[token_hash].account_id,
                        expires_at_epoch_s |-> table[token_hash].expires_at_epoch_s ]
                 ELSE [ some |-> FALSE, account_id |-> "", expires_at_epoch_s |-> 0 ],
      table |-> Retain(table, DOMAIN table \ { token_hash }) ]

\* the mutant: the UPDATE writes nothing
update_password_hash_dropped(accounts, account_id, new_password_hash) ==
    [ ok |-> \E email \in DOMAIN accounts : accounts[email].account_id = account_id,
      accounts |-> accounts ]

\* UPDATE auth_accounts SET password_hash = $2 WHERE account_id = $1
update_password_hash(accounts, account_id, new_password_hash) ==
    [ ok |-> \E email \in DOMAIN accounts : accounts[email].account_id = account_id,
      accounts |-> [ email \in DOMAIN accounts |->
                       IF accounts[email].account_id = account_id
                       THEN [ accounts[email] EXCEPT !.password_hash = new_password_hash ]
                       ELSE accounts[email] ] ]

\* issue_tokens: the access token with exp = iat + ttl and a fresh refresh
\* token stored under its hash, or Internal when the account lookup or the
\* insert fails
issue_tokens_for(table, account_id, now, from) ==
    { [ ok |-> FALSE, table |-> table, tokens |-> {} ] }
    \cup { [ ok |-> TRUE,
             table |-> Put(table, hash_token(FreshToken),
                           [ account_id |-> account_id,
                             expires_at_epoch_s |-> now + TOKEN_TTL_S ]),
             tokens |-> { [ kind |-> "access", id |-> 0, account_id |-> account_id,
                            exp |-> now + TOKEN_TTL_S, from |-> 0 ],
                          [ kind |-> "refresh", id |-> FreshToken, account_id |-> account_id,
                            exp |-> now + TOKEN_TTL_S, from |-> from ] } ] :
           ok \in { FreshToken <= MaxTokens } \ { FALSE } }

Respond(op, token, password, status, reset_to) ==
    [ op |-> op, flip |-> ~response.flip, token |-> token, password |-> password,
      status |-> status, reset_to |-> reset_to ]

\* the gateway after pilot@example.com has registered
InitTokens ==
    /\ ServerAbsent
    /\ ClientAbsent
    /\ RuntimeAbsent
    /\ graph = EmptyGraph
    /\ snapshot_markers = << >>
    /\ reported = EmptyMap
    /\ BootstrapStoreAbsent
    /\ auth_accounts = create_account(EmptyMap, PilotEmail,
                                      hash_password("very-strong-password"), "a").accounts
    /\ bootstrap_commands = << [ account_id |-> "a", player_entity_id |-> PlayerOfAccount("a"),
                                 sent |-> TRUE ] >>
    /\ handlers = << Returned("register", PilotEmail, "a", "") >>
    /\ TokensAbsent
    /\ StandaloneAbsent

besideTokenVars == << serverVars, clientVars, storeVars, runtimeVars, reported,
                      bootstrapStoreVars, bootstrap_commands, handlers, standaloneVars >>

\* SystemTime::now() moves on
Clock ==
    /\ now_epoch_s + CLOCK_STEP_S <= MaxClock * CLOCK_STEP_S
    /\ now_epoch_s' = now_epoch_s + CLOCK_STEP_S
    /\ UNCHANGED << auth_accounts, refresh_tokens, reset_tokens, issued_tokens, response,
                    besideTokenVars >>

\* POST /auth/login for the registered email
login_for_tokens(password) ==
    /\ IF ~verify_password(password, auth_accounts[PilotEmail].password_hash)
       THEN /\ response' = Respond("login", 0, password, StatusOf("Unauthorized"),
                                   response.reset_to)
            /\ UNCHANGED << refresh_tokens, issued_tokens >>
       ELSE \E out \in issue_tokens_for(refresh_tokens, auth_accounts[PilotEmail].account_id,
                                        now_epoch_s, 0) :
               /\ refresh_tokens' = out.table
               /\ issued_tokens' = issued_tokens \cup out.tokens
               /\ response' = Respond("login", 0, password,
                                      StatusOf(IF out.ok THEN "" ELSE "Internal"),
                                      response.reset_to)
    /\ UNCHANGED << auth_accounts, now_epoch_s, reset_tokens, besideTokenVars >>

\* POST /auth/refresh; token 0 is the empty string
refresh(token) ==
    /\ LET consumed == consume_token(refresh_tokens, hash_token(token)) IN
       \/ /\ token = 0
          /\ response' = Respond("refresh", token, "", StatusOf("Validation"),
                                 response.reset_to)
          /\ UNCHANGED << refresh_tokens, issued_tokens >>
       \/ /\ token # 0
          /\ response' = Respond("refresh", token, "", StatusOf("Internal"),
                                 response.reset_to)
          /\ UNCHANGED << refresh_tokens, issued_tokens >>
       \/ /\ token # 0
          /\ ~consumed.record.some \/ now_epoch_s > consumed.record.expires_at_epoch_s
          /\ refresh_tokens' = consumed.table
          /\ response' = Respond("refresh", token, "", StatusOf("Unauthorized"),
                                 response.reset_to)
          /\ UNCHANGED issued_tokens
       \/ /\ token # 0
          /\ consumed.record.some
          /\ ~(now_epoch_s > consumed.record.expires_at_epoch_s)
          /\ \E out \in issue_tokens_for(consumed.table, consumed.record.account_id,
                                         now_epoch_s, token) :
                /\ refresh_tokens' = out.table
                /\ issued_tokens' = issued_tokens \cup out.tokens
                /\ response' = Respond("refresh", token, "",
                                       StatusOf(IF out.ok THEN "" ELSE "Internal"),
                                       response.reset_to)
    /\ UNCHANGED << auth_accounts, now_epoch_s, reset_tokens, besideTokenVars >>

\* GET /auth/me with a bearer token
me(access_token) ==
    /\ response' =
          Respond("me", access_token, "",
                  StatusOf(IF ~AuthService_decode_access_token(access_token, now_epoch_s)
                           THEN "Unauthorized"
                           ELSE IF access_token.sub \notin AccountIdsInUse
                           THEN "Unauthorized"
                           ELSE ""),
                  response.reset_to)
    /\ UNCHANGED << auth_accounts, now_epoch_s, refresh_tokens, reset_tokens, issued_tokens,
                    besideTokenVars >>

\* POST /auth/password-reset/request
password_reset_request(email) ==
    /\ LET normalized == normalize_email(email) IN
       IF ~normalized.ok
       THEN /\ response' = Respond("reset_request", 0, "", StatusOf("Validation"),
                                   response.reset_to)
            /\ UNCHANGED << reset_tokens, issued_tokens >>
       ELSE IF normalized.email \notin DOMAIN auth_accounts
       THEN /\ response' = Respond("reset_request", 0, "", StatusOf(""),
                                   response.reset_to)
            /\ UNCHANGED << reset_tokens, issued_tokens >>
       ELSE \/ /\ response' = Respond("reset_request", 0, "", StatusOf("Internal"),
                                      response.reset_to)
               /\ UNCHANGED << reset_tokens, issued_tokens >>
            \/ /\ FreshToken <= MaxTokens
               /\ LET issued == [ kind |-> "reset", id |-> FreshToken,
                                  account_id |-> auth_accounts[normalized.email].account_id,
                                  exp |-> now_epoch_s + TOKEN_TTL_S, from |-> 0 ]
                  IN  /\ reset_tokens' = Put(reset_tokens, hash_token(issued.id),
                                             [ account_id |-> issued.account_id,
                                               expires_at_epoch_s |-> issued.exp ])
                      /\ issued_tokens' = issued_tokens \cup { issued }
                      /\ response' = Respond("reset_request", 0, "", StatusOf(""),
                                             response.reset_to)
    /\ UNCHANGED << auth_accounts, now_epoch_s, refresh_tokens, besideTokenVars >>

\* POST /auth/password-reset/confirm; token 0 is the empty string
password_reset_confirm(token, new_password) ==
    /\ LET consumed == consume_token(reset_tokens, hash_token(token))
           updated == update_password_hash(auth_accounts, consumed.record.account_id,
                                           hash_password(new_password))
       IN
       \/ /\ ~validate_password(new_password) \/ token = 0
          /\ response' = Respond("reset_confirm", token, new_password,
                                 StatusOf("Validation"), response.reset_to)
          /\ UNCHANGED << reset_tokens, auth_accounts >>
       \/ /\ validate_password(new_password) /\ token # 0
          /\ response' = Respond("reset_confirm", token, new_password,
                                 StatusOf("Internal"), response.reset_to)
          /\ UNCHANGED << reset_tokens, auth_accounts >>
       \/ /\ validate_password(new_password) /\ token # 0
          /\ ~consumed.record.some \/ now_epoch_s > consumed.record.expires_at_epoch_s
          /\ reset_tokens' = consumed.table
          /\ response' = Respond("reset_confirm", token, new_password,
                                 StatusOf("Unauthorized"), response.reset_to)
          /\ UNCHANGED auth_accounts
       \/ /\ validate_password(new_password) /\ token # 0
          /\ consumed.record.some
          /\ ~(now_epoch_s > consumed.record.expires_at_epoch_s)
          /\ reset_tokens' = consumed.table
          /\ \/ /\ response' = Respond("reset_confirm", token, new_password,
                                       StatusOf("Internal"), response.reset_to)
                /\ UNCHANGED auth_accounts
             \/ /\ auth_accounts' = updated.accounts
                /\ response' = Respond("reset_confirm", token, new_password,
                                       StatusOf(IF updated.ok THEN "" ELSE "Unauthorized"),
                                       IF updated.ok THEN new_password
                                       ELSE response.reset_to)
    /\ UNCHANGED << now_epoch_s, refresh_tokens, issued_tokens, besideTokenVars >>

NextTokens ==
    \/ Clock
    \/ \E password \in TokenPasswords : login_for_tokens(password)
    \/ \E token \in 0..MaxTokens : refresh(token)
    \/ \E access_token \in PresentableAccessTokens : me(access_token)
    \/ \E email \in { PilotEmail, "ace@example.com", "pilot" } : password_reset_request(email)
    \/ \E token \in 0..MaxTokens, new_password \in TokenPasswords :
          password_reset_confirm(token, new_password)

SpecTokens == InitTokens /\ [][NextTokens]_vars

----------------------------------------------------------------------------
(* Refresh requests in flight together.  AuthService::refresh awaits the   *)
(* store twice, in consume_refresh_token and in issue_tokens; the handlers *)
(* of other requests run between the two.  A handler keeps its token, what *)
(* the store answered to the consume, and the response once returned.      *)

\* refresh requests the gateway takes
MaxRefreshes == 3

\* the gateway after pilot@example.com has registered and logged in once
InitRefresh ==
    /\ ServerAbsent
    /\ ClientAbsent
    /\ RuntimeAbsent
    /\ graph = EmptyGraph
    /\ snapshot_markers = << >>
    /\ reported = EmptyMap
    /\ BootstrapStoreAbsent
    /\ auth_accounts = create_account(EmptyMap, PilotEmail,
                                      hash_password("very-strong-password"), "a").accounts
    /\ bootstrap_commands = << [ account_id |-> "a", player_entity_id |-> PlayerOfAccount("a"),
                                 sent |-> TRUE ] >>
    /\ handlers = << >>
    /\ now_epoch_s = 0
    /\ refresh_tokens = [ h \in { hash_token(1) } |->
                            [ account_id |-> "a", expires_at_epoch_s |-> TOKEN_TTL_S ] ]
    /\ reset_tokens = EmptyMap
    /\ issued_tokens = { [ kind |-> "access", id |-> 0, account_id |-> "a",
                           exp |-> TOKEN_TTL_S, from |-> 0 ],
                         [ kind |-> "refresh", id |-> 1, account_id |-> "a",
                           exp |-> TOKEN_TTL_S, from |-> 0 ] }
    /\ response = NoResponse
    /\ StandaloneAbsent

besideRefreshVars == << serverVars, clientVars, storeVars, runtimeVars, reported,
                        bootstrapStoreVars, bootstrap_commands, standaloneVars,
                        auth_accounts, reset_tokens, response >>

\* the clock between the steps of the handlers
RefreshClock ==
    /\ now_epoch_s + CLOCK_STEP_S <= MaxClock * CLOCK_STEP_S
    /\ now_epoch_s' = now_epoch_s + CLOCK_STEP_S
    /\ UNCHANGED << handlers, refresh_tokens, issued_tokens, besideRefreshVars >>

\* POST /auth/refresh arrives: the empty token (0) is answered at once, any
\* other waits on consume_refresh_token
refresh_request(token) ==
    /\ Len(handlers) < MaxRefreshes
    /\ handlers' = Append(handlers,
                          IF token = 0
                          THEN [ token |-> token, at |-> "returned", consumed |-> "pending",
                                 account_id |-> "", status |-> StatusOf("Validation"),
                                 obtained |-> 0 ]
                          ELSE [ token |-> token, at |-> "consume", consumed |-> "pending",
                                 account_id |-> "", status |-> 0, obtained |-> 0 ])
    /\ UNCHANGED << now_epoch_s, refresh_tokens, issued_tokens, besideRefreshVars >>

\* the store answers consume_refresh_token of handler i: an error, no row,
\* or the row, which the handler then tests for expiry
consume_refresh_token(i) ==
    /\ handlers[i].at = "consume"
    /\ LET consumed == consume_token(refresh_tokens, hash_token(handlers[i].token)) IN
       \/ /\ handlers' = [ handlers EXCEPT ![i].at = "returned",
                                           ![i].consumed = "failed",
                                           ![i].status = StatusOf("Internal") ]
          /\ UNCHANGED refresh_tokens
       \/ /\ refresh_tokens' = consumed.table
          /\ handlers' =
               [ handlers EXCEPT
                   ![i] = IF ~consumed.record.some
                          THEN [ @ EXCEPT !.at = "returned", !.consumed = "none",
                                          !.status = StatusOf("Unauthorized") ]
                          ELSE IF now_epoch_s > consumed.record.expires_at_epoch_s
                          THEN [ @ EXCEPT !.at = "returned", !.consumed = "row",
                                          !.account_id = consumed.record.account_id,
                                          !.status = StatusOf("Unauthorized") ]
                          ELSE [ @ EXCEPT !.at = "issue", !.consumed = "row",
                                          !.account_id = consumed.record.account_id ] ]
    /\ UNCHANGED << now_epoch_s, issued_tokens, besideRefreshVars >>

\* issue_tokens of handler i returns
refresh_issue_tokens(i) ==
    /\ handlers[i].at = "issue"
    /\ \E out \in issue_tokens_for(refresh_tokens, handlers[i].account_id, now_epoch_s,
                                   handlers[i].token) :
         /\ refresh_tokens' = out.table
         /\ issued_tokens' = issued_tokens \cup out.tokens
         /\ handlers' = [ handlers EXCEPT
                            ![i].at = "returned",
                            ![i].status = StatusOf(IF out.ok THEN "" ELSE "Internal"),
                            ![i].obtained = IF out.ok THEN FreshToken ELSE 0 ]
    /\ UNCHANGED << now_epoch_s, besideRefreshVars >>

NextRefresh ==
    \/ RefreshClock
    \/ \E token \in 0..MaxTokens : refresh_request(token)
    \/ \E i \in 1..Len(handlers) : consume_refresh_token(i)
    \/ \E i \in 1..Len(handlers) : refresh_issue_tokens(i)

SpecRefresh == InitRefresh /\ [][NextRefresh]_vars

----------------------------------------------------------------------------
(* What the specifications of one pipeline or of the client leave alone.   *)

NothingElseRuns ==
    /\ ServerAbsent
    /\ ClientAbsent
    /\ RuntimeAbsent
    /\ graph = EmptyGraph
    /\ snapshot_markers = << >>
    /\ reported = EmptyMap
    /\ BootstrapStoreAbsent
    /\ GatewayAbsent

nothingElseVars == << serverVars, clientVars, storeVars, runtimeVars, reported,
                      bootstrapStoreVars, gatewayVars >>

----------------------------------------------------------------------------
(* The action pipeline of SiderealGamePlugin for one controlled entity:    *)
(* FixedUpdate runs validate_action_capabilities, process_flight_actions   *)
(* and apply_engine_thrust in this order; inputs are queued between runs.  *)
(* Throttle is in tenths.  The forces and the fuel of apply_engine_thrust  *)
(* are not part of the state.                                              *)

\* actions the queue holds between two fixed steps
MaxQueue == 2

BRAKE_SENTINEL_THROTTLE == 20

\* the EntityAction values a client sends, flight and other
QueuedActions == { "ThrustForward", "ThrustReverse", "ThrustNeutral", "Brake",
                   "YawLeft", "YawRight", "YawNeutral", "FirePrimary" }

\* ActionCapabilities.supported of every entity spawned with an ActionQueue
SupportedActions == { "ThrustForward", "ThrustReverse", "ThrustNeutral", "Brake",
                      "YawLeft", "YawRight", "YawNeutral" }

can_handle(supported, action) == action \in supported

\* the mutant: the flight computer takes FirePrimary for full throttle
translate_action_greedy(computer, action) ==
    CASE action = "ThrustForward" -> [ computer EXCEPT !.throttle = 10 ]
      [] action = "ThrustReverse" -> [ computer EXCEPT !.throttle = -7 ]
      [] action = "ThrustNeutral" -> [ computer EXCEPT !.throttle = 0 ]
      [] action = "Brake" -> [ throttle |-> BRAKE_SENTINEL_THROTTLE, yaw_input |-> 0 ]
      [] action = "YawLeft" -> [ computer EXCEPT !.yaw_input = 1 ]
      [] action = "YawRight" -> [ computer EXCEPT !.yaw_input = -1 ]
      [] action = "YawNeutral" -> [ computer EXCEPT !.yaw_input = 0 ]
      [] OTHER -> [ computer EXCEPT !.throttle = 10 ]

\* the match of process_flight_actions on one action
translate_action(computer, action) ==
    CASE action = "ThrustForward" -> [ computer EXCEPT !.throttle = 10 ]
      [] action = "ThrustReverse" -> [ computer EXCEPT !.throttle = -7 ]
      [] action = "ThrustNeutral" -> [ computer EXCEPT !.throttle = 0 ]
      [] action = "Brake" -> [ throttle |-> BRAKE_SENTINEL_THROTTLE, yaw_input |-> 0 ]
      [] action = "YawLeft" -> [ computer EXCEPT !.yaw_input = 1 ]
      [] action = "YawRight" -> [ computer EXCEPT !.yaw_input = -1 ]
      [] action = "YawNeutral" -> [ computer EXCEPT !.yaw_input = 0 ]
      [] OTHER -> computer

\* for action in queue.drain()
RECURSIVE TranslateAll(_, _)
TranslateAll(computer, pending) ==
    IF pending = << >> THEN computer
    ELSE TranslateAll(translate_action(computer, Head(pending)), Tail(pending))

InitFlight ==
    /\ NothingElseRuns
    /\ interpolation = << >>
    /\ client_app = << >>
    /\ flight = [ phase |-> "idle", pending |-> << >>,
                  computer |-> [ throttle |-> 0, yaw_input |-> 0 ],
                  warned |-> {} ]

\* receive_client_inputs pushes an action of an input message
QueuePush(action) ==
    /\ flight.phase = "idle"
    /\ Len(flight.pending) < MaxQueue
    /\ flight' = [ flight EXCEPT !.pending = Append(@, action) ]
    /\ UNCHANGED << nothingElseVars, interpolation, client_app >>

\* warns of every queued action the capabilities do not list; the queue is
\* read only
validate_action_capabilities ==
    /\ flight.phase = "idle"
    /\ flight' = [ flight EXCEPT
                     !.phase = "process",
                     !.warned = { flight.pending[k] : k \in
                                    { j \in 1..Len(flight.pending) :
                                        ~can_handle(SupportedActions, flight.pending[j]) } } ]
    /\ UNCHANGED << nothingElseVars, interpolation, client_app >>

process_flight_actions ==
    /\ flight.phase = "process"
    /\ flight' = [ flight EXCEPT
                     !.phase = "thrust",
                     !.computer = TranslateAll(@, flight.pending),
                     !.pending = << >> ]
    /\ UNCHANGED << nothingElseVars, interpolation, client_app >>

apply_engine_thrust ==
    /\ flight.phase = "thrust"
    /\ flight' = [ flight EXCEPT !.phase = "idle" ]
    /\ UNCHANGED << nothingElseVars, interpolation, client_app >>

NextFlight ==
    \/ \E action \in QueuedActions : QueuePush(action)
    \/ validate_action_capabilities
    \/ process_flight_actions
    \/ apply_engine_thrust

SpecFlight == InitFlight /\ [][NextFlight]_vars

----------------------------------------------------------------------------
(* The client's interpolation of a remote ship: one SnapshotBuffer, filled  *)
(* by receive_lightyear_replication_messages with the client's elapsed      *)
(* time as server_time and sampled by interpolate_remote_entities later in  *)
(* the same frame.  Times are in hundredths of a second, positions in       *)
(* metres along one axis.                                                    *)

\* snapshots the buffer receives
MaxSnapshots == 3
\* the elapsed time of the last frame
MaxTime == 20

MAX_EXTRAPOLATION_S == 5
INTERPOLATION_DELAY_S == 10
SNAPSHOT_CAPACITY == 60

\* how long a frame takes
FrameSteps == { 1, 4, 10 }
SnapshotPositions == { 0, 10 }

NoSnapshot == [ some |-> FALSE, server_time |-> 0, position_m |-> 0 ]
Sample(server_time, position_m) ==
    [ some |-> TRUE, server_time |-> server_time, position_m |-> position_m ]

\* SnapshotBuffer::push
RECURSIVE PopFrontOver(_, _)
PopFrontOver(snapshots, capacity) ==
    IF Len(snapshots) > capacity THEN PopFrontOver(Tail(snapshots), capacity)
    ELSE snapshots

SnapshotBuffer_push(snapshots, snapshot) ==
    PopFrontOver(Append(snapshots, snapshot), SNAPSHOT_CAPACITY)

\* the loop of interpolate_at: the last snapshot not after render_time that
\* comes before the first one after it, and that first one
RECURSIVE Bracket(_, _, _)
Bracket(snapshots, render_time, before) ==
    IF snapshots = << >> THEN [ before |-> before, after |-> NoSnapshot ]
    ELSE IF Head(snapshots).server_time <= render_time
         THEN Bracket(Tail(snapshots), render_time,
                      Sample(Head(snapshots).server_time, Head(snapshots).position_m))
         ELSE [ before |-> before,
                after |-> Sample(Head(snapshots).server_time,
                                 Head(snapshots).position_m) ]

\* interpolate_at without its first test
interpolate_at_any_length(snapshots, render_time) ==
    LET found == Bracket(snapshots, render_time, NoSnapshot)
        b == found.before
        a == found.after
    IN IF b.some /\ a.some
       THEN LET total_time == a.server_time - b.server_time IN
            IF total_time <= 0 THEN b
            ELSE Sample(render_time,
                        b.position_m
                        + ( (a.position_m - b.position_m) * (render_time - b.server_time) )
                          \div total_time)
       ELSE IF b.some
            THEN IF render_time - b.server_time < MAX_EXTRAPOLATION_S THEN b
                 ELSE NoSnapshot
       ELSE NoSnapshot

\* SnapshotBuffer::interpolate_at; the sample between two snapshots is
\* rounded down to the metre
interpolate_at(snapshots, render_time) ==
    IF Len(snapshots) < 2 THEN NoSnapshot
    ELSE interpolate_at_any_length(snapshots, render_time)

InitSnapshots ==
    /\ NothingElseRuns
    /\ flight = << >>
    /\ client_app = << >>
    /\ interpolation = [ now |-> 0, snapshots |-> << >>, result |-> NoSnapshot ]

\* interpolate_remote_entities on the buffer as the frame leaves it
interpolate_remote_entities(now, snapshots) ==
    interpolation' = [ now |-> now, snapshots |-> snapshots,
                       result |-> interpolate_at(snapshots,
                                                 now - INTERPOLATION_DELAY_S) ]

\* a frame that receives an update of the remote ship
frame_with_update(dt, position) ==
    /\ interpolation.now + dt <= MaxTime
    /\ Len(interpolation.snapshots) < MaxSnapshots
    /\ LET now == interpolation.now + dt IN
       interpolate_remote_entities(
           now, SnapshotBuffer_push(interpolation.snapshots,
                                    [ server_time |-> now, position_m |-> position ]))
    /\ UNCHANGED << nothingElseVars, flight, client_app >>

\* a frame in which no update of the remote ship arrives
frame_without_update(dt) ==
    /\ interpolation.now + dt <= MaxTime
    /\ interpolate_remote_entities(interpolation.now + dt, interpolation.snapshots)
    /\ UNCHANGED << nothingElseVars, flight, client_app >>

NextSnapshots ==
    \/ \E dt \in FrameSteps \cup { 0 }, position \in SnapshotPositions :
         frame_with_update(dt, position)
    \/ \E dt \in FrameSteps : frame_without_update(dt)

SpecSnapshots == InitSnapshots /\ [][NextSnapshots]_vars

----------------------------------------------------------------------------
(* The native client between its auth screen and the world: the session,    *)
(* the app state with its pending NextState, the remote-ship registry, the  *)
(* entities spawned for remote ships and the auth messages sent on the      *)
(* transport.  The transport entity stays Connected throughout; the server  *)
(* streams state to it from the moment it has taken the auth message.       *)

\* logins the gateway answers with tokens
MaxLogins == 2

RemoteShipIds == { "ship:b", "ship:c" }
TransportEntity == "client:1"

InitClientApp ==
    /\ NothingElseRuns
    /\ flight = << >>
    /\ interpolation = << >>
    /\ client_app = [ state |-> "Auth", next_state |-> "none",
                      access_token |-> 0, refresh_token |-> 0,
                      world_snapshot |-> NoPlayer, status |-> "Ready.",
                      by_entity_id |-> {}, remote_ships |-> {},
                      sent_for_client_entities |-> {},
                      logins |-> 0, server_streams |-> FALSE,
                      after_logout |-> FALSE ]

besideClientAppVars == << nothingElseVars, flight, interpolation >>

\* submit_auth_request with Login selected and the gateway answering with
\* tokens; the world snapshot is fetched or the fetch fails
submit_auth_request(world_loaded) ==
    /\ client_app.state = "Auth"
    /\ client_app.logins < MaxLogins
    /\ LET n == client_app.logins + 1
           with_tokens == [ client_app EXCEPT !.access_token = n,
                                              !.refresh_token = n,
                                              !.logins = n,
                                              !.after_logout = FALSE ]
       IN client_app' = IF world_loaded
                        THEN [ with_tokens EXCEPT !.world_snapshot = "player:a",
                                                  !.status = "World loaded.",
                                                  !.next_state = "InWorld" ]
                        ELSE [ with_tokens EXCEPT
                                 !.status = "Auth OK but world load failed" ]
    /\ UNCHANGED besideClientAppVars

\* the StateTransition schedule at the start of a frame: the pending state
\* is entered, and what was spawned with DespawnOnExit(InWorld) goes when
\* InWorld is left
StateTransition ==
    /\ client_app.next_state # "none"
    /\ client_app' = [ client_app EXCEPT
                         !.state = client_app.next_state,
                         !.next_state = "none",
                         !.remote_ships =
                             IF client_app.state = "InWorld"
                                /\ client_app.next_state # "InWorld"
                             THEN {} ELSE @ ]
    /\ UNCHANGED besideClientAppVars

\* send_lightyear_auth_messages: once per transport entity while in the
\* world with a token and a snapshot; the server takes the message
send_lightyear_auth_messages ==
    /\ client_app.state = "InWorld"
    /\ client_app.access_token # 0
    /\ client_app.world_snapshot # NoPlayer
    /\ TransportEntity \notin client_app.sent_for_client_entities
    /\ client_app' = [ client_app EXCEPT
                         !.sent_for_client_entities = @ \cup { TransportEntity },
                         !.server_streams = TRUE ]
    /\ UNCHANGED besideClientAppVars

\* receive_lightyear_replication_messages, which runs in every app state:
\* one update of a ship that is not the controlled one
client_receive_replication_messages(entity_id, removed) ==
    /\ client_app.server_streams
    /\ LET streaming == [ client_app EXCEPT !.status = "Replication stream active." ]
       IN client_app' =
            IF removed
            THEN [ streaming EXCEPT !.by_entity_id = @ \ { entity_id },
                                    !.remote_ships =
                                        IF entity_id \in client_app.by_entity_id
                                        THEN @ \ { entity_id } ELSE @ ]
            ELSE IF entity_id \in client_app.by_entity_id
                 THEN streaming
                 ELSE [ streaming EXCEPT !.by_entity_id = @ \cup { entity_id },
                                         !.remote_ships = @ \cup { entity_id } ]
    /\ UNCHANGED besideClientAppVars

\* logout_to_auth_system with Escape just pressed
logout_to_auth_system ==
    /\ client_app.state = "InWorld"
    /\ client_app' = [ client_app EXCEPT !.next_state = "Auth",
                                         !.world_snapshot = NoPlayer,
                                         !.access_token = 0,
                                         !.refresh_token = 0,
                                         !.status = "Logged out. Back on auth screen.",
                                         !.by_entity_id = {},
                                         !.sent_for_client_entities = {},
                                         !.after_logout = TRUE ]
    /\ UNCHANGED besideClientAppVars

NextClientApp ==
    \/ \E world_loaded \in BOOLEAN : submit_auth_request(world_loaded)
    \/ StateTransition
    \/ send_lightyear_auth_messages
    \/ \E entity_id \in RemoteShipIds, removed \in BOOLEAN :
         client_receive_replication_messages(entity_id, removed)
    \/ logout_to_auth_system

SpecClientApp == InitClientApp /\ [][NextClientApp]_vars

----------------------------------------------------------------------------
(* The client's controlled ship: the InputHistory that                     *)
(* predict_controlled_entity fills (prediction.rs), the state frames of    *)
(* the server reconciled in receive_lightyear_replication_messages         *)
(* (main.rs), and reconcile_controlled_entity.  Positions are metres on    *)
(* one axis, the correction timer counts steps of 50 ms.                   *)

\* frames of the client, and the server ticks a state frame can carry
MaxClientTick == 3

INPUT_HISTORY_MAX_SIZE == 128
HARD_SNAP_THRESHOLD_M == 10
CORRECTION_DURATION == 3

ServerPositions == { 0, 4, 20 }

\* InputHistory::push: the entry at the back, the oldest dropped over
\* max_size
InputHistory_push(entries, tick) ==
    LET RECURSIVE Trim(_)
        Trim(es) == IF Len(es) > INPUT_HISTORY_MAX_SIZE THEN Trim(Tail(es)) ELSE es
    IN Trim(Append(entries, tick))

\* InputHistory::prune_before_tick: retain(|e| e.tick >= acked_tick)
prune_before_tick(entries, acked_tick) ==
    SelectSeq(entries, LAMBDA tick : tick >= acked_tick)

InitReconcile ==
    /\ NothingElseRuns
    /\ flight = << >>
    /\ interpolation = << >>
    /\ client_app = [ client_tick |-> 0, entries |-> << >>, position |-> 0,
                      correction_timer |-> 0 ]

\* predict_controlled_entity: the tick advances and the input of the frame
\* is stored; the predicted state is the current one (no stepping)
predict_controlled_entity ==
    /\ client_app.client_tick < MaxClientTick
    /\ client_app' = [ client_app EXCEPT
                         !.client_tick = @ + 1,
                         !.entries = InputHistory_push(@, client_app.client_tick + 1) ]
    /\ UNCHANGED besideClientAppVars

\* reconcile_controlled_entity: what is left of it outside the comment, the
\* correction timer
reconcile_controlled_entity(dt) ==
    /\ client_app.correction_timer < CORRECTION_DURATION
    /\ client_app' = [ client_app EXCEPT !.correction_timer = @ + dt ]
    /\ UNCHANGED besideClientAppVars

\* receive_lightyear_replication_messages, the update of the controlled
\* ship in a state frame of tick server_tick: a hard snap over the
\* threshold, else a blend of (SMOOTH_CORRECTION_RATE * dt).min(1.0), here a
\* half or the whole of the error
receive_controlled_update(server_tick, server_pos, blend_halves) ==
    /\ LET delta == server_pos - client_app.position
           error == IF delta < 0 THEN 0 - delta ELSE delta
       IN client_app' =
            [ client_app EXCEPT
                !.position = IF error > HARD_SNAP_THRESHOLD_M THEN server_pos
                             ELSE IF error > 0
                                  THEN @ + ((delta * blend_halves) \div 2)
                                  ELSE @ ]
    /\ UNCHANGED besideClientAppVars

NextReconcile ==
    \/ predict_controlled_entity
    \/ \E dt \in { 1, 2 } : reconcile_controlled_entity(dt)
    \/ \E server_tick \in 1..MaxClientTick, server_pos \in ServerPositions,
          blend_halves \in { 1, 2 } :
         receive_controlled_update(server_tick, server_pos, blend_halves)

SpecReconcile == InitReconcile /\ [][NextReconcile]_vars

----------------------------------------------------------------------------
(* Properties *)

\* the state frames sent during the frame
C_Frames == { state_channel[i] : i \in 1..Len(state_channel) }

\* the decisions the system that just ran took
C_Decisions(system) ==
    { trace[i] : i \in { i \in 1..Len(trace) : trace[i].system = system } }

\* a session that has not completed auth: no binding exists for it
C1_Unauthenticated(client_entity) ==
    client_entity \notin DOMAIN bindings.by_client_entity

\* the filter applied, for a session, to the world as it now stands
C1_FilterOf(client_entity) ==
    apply_visibility_filter(
        BroadcastUpdates(ships, fittings),
        visibility_context_for_client(client_entity, visibility_registry,
                                      position_map, visibility_mode))

\* C1: for every live session that has not completed auth the visibility
\* filter returns None and no state frame sent during the frame is
\* addressed to it, whatever connects, rejected auth frames and input
\* frames came before.
C1_NoStateBeforeAuth ==
    \A client_entity \in DOMAIN clients :
        C1_Unauthenticated(client_entity) =>
            /\ C1_FilterOf(client_entity) = None
            /\ \A frame \in C_Frames : frame.client_entity # client_entity

\* the broadcast ran over a world of ships, with verification and
\* visibility on, while a live session is unauthenticated: the filter gives
\* it None, it got no frame and it has no visibility history
C1_Witness ==
    /\ phase = "end_frame"
    /\ jwt_secret # ""
    /\ visibility_mode = "default"
    /\ last_tick > 0
    /\ BroadcastUpdates(ships, fittings) # << >>
    /\ \E client_entity \in DOMAIN clients :
          /\ C1_Unauthenticated(client_entity)
          /\ C1_FilterOf(client_entity) = None
          /\ client_entity \notin DOMAIN visibility_history
          /\ \A frame \in C_Frames : frame.client_entity # client_entity

\* C2: the player bound to a session, and to the remote id it addresses,
\* never changes while the binding exists: a binding appears once, stays
\* as long as its session lives, equals the binding of the session's remote
\* id, and an auth frame naming another player leaves it as it was.
C2_BindingIsImmutable ==
    [][ /\ \A client_entity \in DOMAIN bindings.by_client_entity :
              /\ client_entity \in DOMAIN bindings'.by_client_entity =>
                    bindings'.by_client_entity[client_entity]
                        = bindings.by_client_entity[client_entity]
              /\ client_entity \in DOMAIN clients' =>
                    client_entity \in DOMAIN bindings'.by_client_entity
        /\ \A remote_id \in DOMAIN bindings.by_remote_id :
              remote_id \in DOMAIN bindings'.by_remote_id =>
                 bindings'.by_remote_id[remote_id] = bindings.by_remote_id[remote_id]
        /\ \A client_entity \in DOMAIN bindings.by_client_entity \cap DOMAIN clients :
              /\ clients[client_entity] \in DOMAIN bindings.by_remote_id
              /\ bindings.by_remote_id[clients[client_entity]]
                    = bindings.by_client_entity[client_entity]
      ]_vars

\* a bound session sent an auth frame with a good token of another player:
\* the frame was rejected and the binding is what it was
C2_Witness ==
    /\ phase = "receive_inputs"
    /\ \E decision \in C_Decisions("auth") :
          /\ decision.message.access_token.signed_with = jwt_secret
          /\ decision.message.access_token.exp = "unexpired"
          /\ decision.message.access_token.player_entity_id
                = decision.message.player_entity_id
          /\ decision.bound_before \notin { NoPlayer, decision.message.player_entity_id }
          /\ decision.accepted = NoPlayer
          /\ decision.client_entity \in DOMAIN bindings.by_client_entity
          /\ bindings.by_client_entity[decision.client_entity] = decision.bound_before

\* the token of an auth frame verifies against the shared secret and names
\* the player the frame claims
C3_Verifies(message) ==
    /\ jwt_secret # ""
    /\ message.access_token.signed_with = jwt_secret
    /\ message.access_token.exp = "unexpired"
    /\ message.access_token.player_entity_id = message.player_entity_id

\* the session received, in this frame, a verifying auth frame for player
C3_VerifiedFrameFor(client_entity, player_entity_id) ==
    /\ client_entity \in DOMAIN auth_rx
    /\ \E i \in 1..Len(auth_rx[client_entity]) :
          /\ C3_Verifies(auth_rx[client_entity][i])
          /\ auth_rx[client_entity][i].player_entity_id = player_entity_id

C4_Spoofed(client_entity, message) ==
    /\ client_entity \in DOMAIN bindings.by_client_entity
    /\ message.player_entity_id # bindings.by_client_entity[client_entity]

\* the actions the routed decisions of a trace push to one entity, in order
RECURSIVE C4_Pushed(_, _)
C4_Pushed(decisions, entity_id) ==
    IF decisions = << >> THEN << >>
    ELSE ( IF Head(decisions).system = "input" /\ Head(decisions).target = entity_id
           THEN Head(decisions).message.actions
           ELSE << >> )
         \o C4_Pushed(Tail(decisions), entity_id)

\* the input frames waiting in the receivers of the live sessions
C4_WaitingInputs ==
    UNION { { << client_entity, i >> : i \in 1..Len(input_rx[client_entity]) } :
            client_entity \in DOMAIN clients }

\* C4: when receive_client_inputs runs, every waiting input frame gets one
\* decision; a frame naming another player than its session's bound player
\* is dropped; each entity's action queue grows by exactly the actions of
\* the frames that were not dropped, and nothing else of the server state
\* changes.
C4_SpoofedInputIsDropped ==
    [][ phase = "receive_inputs" =>
          /\ Len(trace') = Cardinality(C4_WaitingInputs)
          /\ \A i \in 1..Len(trace') :
                C4_Spoofed(trace'[i].client_entity, trace'[i].message) =>
                   trace'[i].target = ""
          /\ DOMAIN ships' = DOMAIN ships
          /\ \A entity_id \in DOMAIN ships :
                ships'[entity_id] =
                   [ ships[entity_id] EXCEPT
                       !.pending = @ \o C4_Pushed(trace', entity_id) ]
          /\ UNCHANGED << envVars, clients, next_client, auth_rx, sessionVars,
                          fittings, controlled_entity_map, position_map,
                          bootstrapVars, outbound, last_tick, state_channel >>
      ]_vars

\* a bound session whose player has a ship sent a frame naming the other
\* player, the frame was dropped and every action queue is empty
C4_Witness ==
    /\ phase = "process_bootstrap"
    /\ \E decision \in C_Decisions("input") :
          /\ C4_Spoofed(decision.client_entity, decision.message)
          /\ decision.message.player_entity_id \in DOMAIN controlled_entity_map
          /\ bindings.by_client_entity[decision.client_entity]
                \in DOMAIN controlled_entity_map
          /\ decision.target = ""
    /\ \A entity_id \in DOMAIN ships : ships[entity_id].pending = << >>

\* a session that completed auth: bound and registered for visibility
C5_CompletedAuth(client_entity) ==
    /\ client_entity \in DOMAIN bindings.by_client_entity
    /\ client_entity \in DOMAIN visibility_registry

\* C5: auth precedes any gameplay effect: after receive_client_inputs the
\* action queues hold exactly the actions of the routed decisions, and
\* every routed decision belongs to a session that has completed auth, so
\* the input of an unauthenticated session is dropped.
C5_AuthPrecedesInput ==
    /\ \A decision \in C_Decisions("input") :
          decision.target # "" => C5_CompletedAuth(decision.client_entity)
    /\ phase = "process_bootstrap" =>
          \A entity_id \in DOMAIN ships :
             ships[entity_id].pending = C4_Pushed(trace, entity_id)

\* a session without a binding sent input naming a player who has a ship:
\* the frame was dropped and no queue holds an action
C5_Witness ==
    /\ phase = "process_bootstrap"
    /\ \E decision \in C_Decisions("input") :
          /\ ~C5_CompletedAuth(decision.client_entity)
          /\ decision.message.player_entity_id \in DOMAIN controlled_entity_map
          /\ decision.target = ""
    /\ \A entity_id \in DOMAIN ships : ships[entity_id].pending = << >>

\* C6: every routed input decision of a session bound to P targets an
\* entity that carries OwnerId(P): never an entity of another player or of
\* nobody; and every controllable entity is owned by its controlling player.
C6_OnlyOwnedEntityControlled ==
    /\ \A decision \in C_Decisions("input") :
          decision.target # "" =>
             /\ decision.client_entity \in DOMAIN bindings.by_client_entity
             /\ decision.target \in DOMAIN ships
             /\ ships[decision.target].owner_id
                   = bindings.by_client_entity[decision.client_entity]
    /\ \A player_entity_id \in DOMAIN controlled_entity_map :
          /\ controlled_entity_map[player_entity_id] \in DOMAIN ships
          /\ ships[controlled_entity_map[player_entity_id]].owner_id = player_entity_id

\* an input of a session bound to P was pushed to P's ship while a ship of
\* the other player exists
C6_Witness ==
    /\ phase = "process_bootstrap"
    /\ \E decision \in C_Decisions("input") :
          /\ decision.target # ""
          /\ ships[decision.target].pending # << >>
          /\ \E other \in DOMAIN ships :
                ships[other].owner_id
                   \notin { NoOwner, bindings.by_client_entity[decision.client_entity] }

\* the OwnerId an entity of the world carries
C7_OwnerOf(entity_id) ==
    IF entity_id \in DOMAIN ships THEN ships[entity_id].owner_id
    ELSE IF entity_id \in DOMAIN fittings THEN fittings[entity_id].owner_id
    ELSE NoOwner

\* the player a frame's session is bound to
C7_PlayerOf(frame) == Get(bindings.by_client_entity, frame.client_entity, NoPlayer)

\* the non-removed updates a frame delivers
C7_Delivered(frame) ==
    { frame.updates[i] : i \in { i \in 1..Len(frame.updates) :
                                   ~frame.updates[i].removed } }

C8_Position(entity_id) ==
    IF entity_id \in DOMAIN ships THEN ships[entity_id].position ELSE NoPos

C8_DistanceSquared(a, b) ==
    (a[1] - b[1]) * (a[1] - b[1]) + (a[2] - b[2]) * (a[2] - b[2])
        + (a[3] - b[3]) * (a[3] - b[3])

\* the authorization radius around an owned hull
C8_Radius(ship) ==
    IF ship.has_scanner_range
    THEN DEFAULT_VIEW_RANGE_M + DEFAULT_VIEW_RANGE_M
    ELSE DEFAULT_VIEW_RANGE_M

\* the entity lies in the authorization sphere of some entity of the player
C8_InSomeSphere(entity_id, player_entity_id) ==
    /\ C8_Position(entity_id) # NoPos
    /\ \E owned \in DOMAIN ships :
          /\ ships[owned].owner_id = player_entity_id
          /\ C8_DistanceSquared(C8_Position(entity_id), ships[owned].position)
                <= C8_Radius(ships[owned]) * C8_Radius(ships[owned])

\* not owned by the player and outside every authorization sphere
C8_Outside(entity_id, player_entity_id) ==
    /\ C7_OwnerOf(entity_id) # player_entity_id
    /\ ~C8_InSomeSphere(entity_id, player_entity_id)

\* C7: every non-removed update a frame delivers for an entity the
\* session's player does not own lies in one of the player's authorization
\* spheres, keeps only always-visible properties with the values of the
\* entity, none of the owner-only properties, and carries no components.
C7_NonOwnedIsRedacted ==
    \A frame \in C_Frames : \A update \in C7_Delivered(frame) :
        C7_OwnerOf(update.entity_id) # C7_PlayerOf(frame) =>
            /\ C8_InSomeSphere(update.entity_id, C7_PlayerOf(frame))
            /\ DOMAIN update.properties \subseteq ALWAYS_VISIBLE_PROPERTIES
            /\ DOMAIN update.properties \cap OWNER_ONLY_PROPERTIES = {}
            /\ DOMAIN update.properties
                  \cap { "health", "max_health", "player_entity_id" } = {}
            /\ update.properties["position_m"] = C8_Position(update.entity_id)
            /\ update.components = << >>

\* a frame delivers the redacted update of another player's ship
C7_Witness ==
    /\ phase = "end_frame"
    /\ \E frame \in C_Frames : \E update \in C7_Delivered(frame) :
          /\ update.entity_id \in DOMAIN ships
          /\ C7_OwnerOf(update.entity_id) \notin { NoOwner, C7_PlayerOf(frame) }
          /\ "mass_kg" \in DOMAIN update.properties

\* C8: an entity that the session's player does not own and that lies
\* outside every authorization sphere of the player is absent from the
\* filter's output for the queued world and from the non-removed updates
\* of every frame sent to the session.
C8_OutsideIsOmitted ==
    /\ \A frame \in C_Frames : \A update \in C7_Delivered(frame) :
          ~C8_Outside(update.entity_id, C7_PlayerOf(frame))
    /\ phase = "broadcast" =>
          \A i \in 1..Len(outbound) : \A client_entity \in DOMAIN clients :
             LET filtered == apply_visibility_filter(
                                outbound[i].world,
                                visibility_context_for_client(
                                   client_entity, visibility_registry,
                                   position_map, visibility_mode))
             IN filtered.some =>
                   \A j \in 1..Len(filtered.updates) :
                      ~C8_Outside(filtered.updates[j].entity_id,
                                  Get(bindings.by_client_entity, client_entity, NoPlayer))

\* a frame delivers something of another player while a ship farther than
\* every authorization radius of the session's player is left out
C8_Witness ==
    /\ phase = "end_frame"
    /\ \E frame \in C_Frames :
          /\ \E update \in C7_Delivered(frame) :
                C7_OwnerOf(update.entity_id) # C7_PlayerOf(frame)
          /\ \E entity_id \in DOMAIN ships :
                /\ C8_Outside(entity_id, C7_PlayerOf(frame))
                /\ \A i \in 1..Len(frame.updates) :
                      frame.updates[i].entity_id # entity_id

\* the delivery scope: no position on either side, or within the view range
\* of the session's focus position
C9_InFocus(entity_id, player_entity_id) ==
    \/ C8_Position(entity_id) = NoPos
    \/ player_entity_id \notin DOMAIN position_map
    \/ C8_DistanceSquared(C8_Position(entity_id), position_map[player_entity_id])
          <= DEFAULT_VIEW_RANGE_M * DEFAULT_VIEW_RANGE_M

C10_Removals(frame, entity_id) ==
    { k \in 1..Len(frame.updates) :
         /\ frame.updates[k].entity_id = entity_id
         /\ frame.updates[k].removed }

\* C10: when broadcast_replication_state sends a frame to a session, with
\* previous_visible the session's history before the step and
\* current_visible the ids the frame delivers with removed=false: the
\* frame holds exactly one removed=true update for every id of
\* previous_visible \ current_visible, the delivered ids lie in
\* previous_visible \cup current_visible, and the session's history after
\* the step is current_visible.
C10_LeaveEventsAndHistory ==
    [][ ( phase = "broadcast" /\ Len(outbound) = 1 ) =>
          \A i \in 1..Len(state_channel') :
             LET frame == state_channel'[i]
                 previous_visible == Get(visibility_history, frame.client_entity, {})
                 current_visible == { update.entity_id : update \in C7_Delivered(frame) }
             IN /\ frame.client_entity \in DOMAIN visibility_history'
                /\ visibility_history'[frame.client_entity] = current_visible
                /\ current_visible \subseteq
                      previous_visible \cup visibility_history'[frame.client_entity]
                /\ \A entity_id \in previous_visible \ current_visible :
                      Cardinality(C10_Removals(frame, entity_id)) = 1
                /\ \A entity_id \in current_visible :
                      C10_Removals(frame, entity_id) = {}
      ]_vars

\* a frame delivers entities that stay or enter and announces one that left
C10_Witness ==
    /\ phase = "end_frame"
    /\ \E frame \in C_Frames :
          /\ C7_Delivered(frame) # {}
          /\ \E k \in 1..Len(frame.updates) : frame.updates[k].removed
          /\ visibility_history[frame.client_entity]
                = { update.entity_id : update \in C7_Delivered(frame) }

\* nothing is queued, sent or received and not yet processed
C11_Quiet ==
    /\ phase = "idle"
    /\ outbound = << >>
    /\ state_channel = << >>
    /\ wire = {}
    /\ client_rx = << >>

\* C11: the client never keeps an entity the server has stopped delivering:
\* once every frame sent has been lost or processed, each entity in the
\* client's registry is one the server's history holds as currently
\* delivered to that session, so every leave event was observed.
C11_ClientObservesLeave ==
    C11_Quiet =>
        remote_registry \subseteq Get(visibility_history, DeliveryClient, {})


----------------------------------------------------------------------------
\* C12: a flush whose persistence call failed has lost nothing: every
\* update of the batch it drained is still in the pending updates, where
\* the next flush attempt finds it.
C12_FailedFlushKeepsPending ==
    persist_result.status = "err"
        => DOMAIN persist_result.batch \subseteq DOMAIN pending_updates

\* a step of flush_replication_persistence that called flush_pending_updates
\* and got Ok
C13_FlushSucceeds ==
    /\ phase = "flush"
    /\ persist_elapsed
    /\ pending_updates # EmptyMap
    /\ persist_result'.status = "ok"

\* C13: after a successful flush the pending set is empty and the reloaded
\* graph holds, for every entity of the flushed batch, a record whose
\* properties and components equal those of its delta.
C13_FlushRoundTrip ==
    [][ C13_FlushSucceeds =>
          /\ pending_updates' = EmptyMap
          /\ \A id \in DOMAIN pending_updates :
               LET delta == pending_updates[id]
                   records == load_graph_records(graph')
               IN /\ id \in DOMAIN records
                  /\ records[id].properties = delta.properties
                  /\ { records[id].components[c] : c \in DOMAIN records[id].components }
                       = { delta.components[i] : i \in 1..Len(delta.components) } ]_vars

\* C14: an entity whose latest reported update is a removal has no record
\* in load_graph_records, and none of the components it was ever reported
\* with is left in the graph, as a node or at the end of an edge.
C14_RemovedEntityIsGone ==
    \A id \in DOMAIN reported :
        reported[id].removed =>
            /\ id \notin DOMAIN load_graph_records(graph)
            /\ \A c \in reported[id].components \cup reported[id].dropped :
                 /\ c \notin DOMAIN graph.components
                 /\ \A edge \in graph.has_component : edge[2] # c

\* an entity was upserted with components and removed after that, while the
\* other entity is still stored
C14_Witness ==
    \E id \in DOMAIN reported :
        /\ reported[id].removed
        /\ reported[id].components # {}
        /\ DOMAIN graph.entities # {}

\* C15: every entity in the store has exactly the components of its most
\* recent non-removal update attached, and the components that update no
\* longer listed are gone from the graph.
C15_ComponentsAreLastReported ==
    \A id \in DOMAIN load_graph_records(graph) :
        /\ id \in DOMAIN reported
        /\ DOMAIN load_graph_records(graph)[id].components = reported[id].components
        /\ \A c \in reported[id].dropped : c \notin DOMAIN graph.components

\* a stored entity whose latest upsert dropped a component it had before
\* and kept another
C15_Witness ==
    \E id \in DOMAIN load_graph_records(graph) :
        /\ ~reported[id].removed
        /\ reported[id].dropped # {}
        /\ reported[id].components # {}

\* C16: a flush leaves the store with every update of its batch applied or
\* with none of them: after a step that flushes the pending updates the
\* graph is the one before the step or the one the whole batch produces.
C16_FlushIsAtomic ==
    [][ ( phase = "flush" /\ persist_elapsed /\ pending_updates # EmptyMap )
          => \/ graph' = graph
             \/ \E order \in Orders(DOMAIN pending_updates) :
                  graph' = Execute(graph,
                                   persist_world_delta(
                                       [ i \in 1..Len(order) |-> pending_updates[order[i]] ],
                                       last_tick)) ]_vars

\* C17: the snapshot markers are in non-decreasing tick order: a marker
\* carries a tick at least as large as that of every marker inserted
\* before it.
C17_MarkersAreMonotonic ==
    \A i, j \in 1..Len(snapshot_markers) :
        i < j => snapshot_markers[i].snapshot_tick <= snapshot_markers[j].snapshot_tick

\* the event rows of an account, by position in the table
C18_EventsOf(account_id) ==
    { i \in 1..Len(bootstrap_events) : bootstrap_events[i].account_id = account_id }

\* C18: of the payloads of an account that were processed, the first was
\* applied and no later one was, and the account has exactly one dedup row
\* from the first one on, however often the payload is repeated.
C18_BootstrapIsIdempotent ==
    \A account_id \in Accounts :
        /\ \A i \in C18_EventsOf(account_id) :
             bootstrap_events[i].applied <=> \A j \in C18_EventsOf(account_id) : i <= j
        /\ Cardinality({ i \in 1..Len(dedup_rows) : dedup_rows[i].account_id = account_id })
             = IF C18_EventsOf(account_id) = {} THEN 0 ELSE 1

\* the payload of one account was processed three times
C18_Witness ==
    \E account_id \in Accounts : Cardinality(C18_EventsOf(account_id)) >= 3

\* the starter world of the account is in the graph: both entities with
\* all their components
C19_StarterWorldExists(account_id) ==
    \A i \in 1..Len(StarterWorld(account_id)) :
        LET update == StarterWorld(account_id)[i]
            records == load_graph_records(graph)
        IN /\ update.entity_id \in DOMAIN records
           /\ DOMAIN records[update.entity_id].components
                = { update.components[c].component_id : c \in 1..Len(update.components) }

\* C19: an account whose payload was processed and processed again has its
\* starter world in the graph (the entity ids derive from the account, so
\* there is never more than one).
C19_OneStarterWorldPerAccount ==
    \A account_id \in Accounts :
        Cardinality(C18_EventsOf(account_id)) >= 2 => C19_StarterWorldExists(account_id)

\* the calls of dispatch for one account
C20_CommandsOf(account_id) ==
    { k \in 1..Len(bootstrap_commands) : bootstrap_commands[k].account_id = account_id }

\* the register handler of this account has not reached its dispatch yet
C20_BeforeDispatch(account_id) ==
    \E i \in 1..Len(handlers) :
        handlers[i].pc = "dispatch" /\ handlers[i].account_id = account_id

\* C20: over any sequence of register and login requests the dispatcher is
\* called exactly once for each created account, by the registration that
\* created it: every command is for a created account, an account has one
\* command as soon as its registration is past the dispatch, a registration
\* that succeeds has its command sent, a login leaves only the commands of
\* registrations, and a registration of an email that an earlier
\* registration has taken creates nothing, dispatches nothing and, when it
\* is well formed and the store answers, returns Conflict (409).
C20_OneDispatchPerAccount ==
    /\ \A k \in 1..Len(bootstrap_commands) :
          bootstrap_commands[k].account_id \in AccountIdsInUse
    /\ \A account_id \in AccountIdsInUse :
          Cardinality(C20_CommandsOf(account_id))
              = IF C20_BeforeDispatch(account_id) THEN 0 ELSE 1
    /\ \A i \in 1..Len(handlers) :
          /\ handlers[i].kind = "register" /\ handlers[i].status = 200
                => \E k \in C20_CommandsOf(handlers[i].account_id) :
                      bootstrap_commands[k].sent
          /\ handlers[i].kind = "login"
                => /\ handlers[i].pc # "dispatch"
                   /\ \A k \in C20_CommandsOf(handlers[i].account_id) :
                         \E j \in 1..Len(handlers) :
                             /\ handlers[j].kind = "register"
                             /\ handlers[j].account_id = handlers[i].account_id
          /\ \A j \in 1..(i - 1) :
                ( /\ handlers[i].kind = "register"
                  /\ handlers[j].kind = "register"
                  /\ handlers[j].email = handlers[i].email
                  /\ handlers[j].account_id # "" )
                => /\ handlers[i].account_id = ""
                   /\ handlers[i].pc = "done"
                   /\ handlers[i].error \in { "Conflict", "Validation", "Internal" }
                   /\ handlers[i].error = "Conflict" <=> handlers[i].status = 409
    /\ Len(bootstrap_commands)
          = Cardinality({ i \in 1..Len(handlers) :
                            /\ handlers[i].kind = "register"
                            /\ handlers[i].account_id # ""
                            /\ handlers[i].pc # "dispatch" })

\* a registration succeeded, then a login with the same credentials, then a
\* second registration of the same email was refused with 409, and one
\* command has been dispatched
C20_Witness ==
    /\ Len(handlers) = 3
    /\ handlers[1].kind = "register" /\ handlers[1].status = 200
    /\ handlers[2].kind = "login" /\ handlers[2].status = 200
    /\ handlers[3].kind = "register" /\ handlers[3].status = 409
    /\ handlers[2].email = handlers[1].email
    /\ handlers[3].email = handlers[1].email
    /\ Len(bootstrap_commands) = 1

\* a token endpoint has just answered
C21_Answered(op) == response'.flip # response.flip /\ response'.op = op

\* the refresh tokens issued so far whose row is no longer in the table
C21_Consumed ==
    { u \in issued_tokens : u.kind = "refresh" /\ hash_token(u.id) \notin DOMAIN refresh_tokens }

\* C21: a refresh token is consumed at most once: a refresh that succeeds
\* presents a stored token, removes its row and returns a refresh token
\* different from it; a refresh presenting a token already consumed never
\* succeeds (Unauthorized, or Internal when the store fails) and issues
\* nothing; and the row of a consumed token never comes back.
C21_RefreshTokenIsSingleUse ==
    [][ /\ \A u \in C21_Consumed : hash_token(u.id) \notin DOMAIN refresh_tokens'
        /\ C21_Answered("refresh") =>
              /\ response'.status = 200 =>
                    /\ hash_token(response'.token) \in DOMAIN refresh_tokens
                    /\ hash_token(response'.token) \notin DOMAIN refresh_tokens'
                    /\ \E new \in issued_tokens' \ issued_tokens :
                          /\ new.kind = "refresh"
                          /\ new.id # response'.token
                          /\ new.from = response'.token
                          /\ hash_token(new.id) \in DOMAIN refresh_tokens'
              /\ (\E u \in C21_Consumed : u.id = response'.token) =>
                    /\ response'.status \in { 401, 500 }
                    /\ issued_tokens' = issued_tokens
      ]_vars

\* a refresh token that was exchanged for new tokens has been presented
\* again and refused as Unauthorized
C21_Witness ==
    /\ response.op = "refresh"
    /\ response.status = 401
    /\ \E u \in issued_tokens : u.kind = "refresh" /\ u.id = response.token
    /\ \E new \in issued_tokens : new.kind = "refresh" /\ new.from = response.token

\* C22: no request that presents an expired token succeeds: not one with an
\* access token whose exp is before now, nor a refresh or a password reset
\* confirmation with a token whose expires_at_epoch_s is before now.
C22_ExpiredIsRejected ==
    [][ response'.flip # response.flip /\ response'.status = 200 =>
          /\ response'.op = "me" => ~(now_epoch_s' > response'.token.exp)
          /\ response'.op = "refresh" =>
                \A u \in issued_tokens :
                    u.kind = "refresh" /\ u.id = response'.token => ~(now_epoch_s' > u.exp)
          /\ response'.op = "reset_confirm" =>
                \A u \in issued_tokens :
                    u.kind = "reset" /\ u.id = response'.token => ~(now_epoch_s' > u.exp)
      ]_vars

\* C23: once a password reset has been confirmed, a login with another
\* password than the confirmed one is refused as Unauthorized (401) and a
\* login with the confirmed one succeeds, unless the token store fails.
C23_ResetReplacesPassword ==
    [][ C21_Answered("login") /\ response.reset_to # "" /\ response'.status # 500 =>
          /\ response'.password = response.reset_to => response'.status = 200
          /\ response'.password # response.reset_to => response'.status = 401
      ]_vars

\* after the reset to a new password the login with it has succeeded
C23_Witness ==
    /\ response.op = "login"
    /\ response.status = 200
    /\ response.reset_to = "brand-new-password"
    /\ response.password = "brand-new-password"
    /\ ~verify_password("very-strong-password", auth_accounts[PilotEmail].password_hash)

\* C24: once the transport has dropped a session and a frame has run to its
\* end, nothing of the session is left: no binding by its client entity or
\* by its remote id, no visibility registration, no visibility history, and
\* so no position looked up for it.
C24_TornDownSessionLeavesNothing ==
    phase = "end_frame" =>
        /\ \A client_entity \in ClientEntities \ DOMAIN clients :
              /\ client_entity \notin DOMAIN bindings.by_client_entity
              /\ client_entity \notin DOMAIN visibility_registry
              /\ client_entity \notin DOMAIN visibility_history
        /\ \A remote_id \in DOMAIN bindings.by_remote_id :
              \E client_entity \in DOMAIN clients : clients[client_entity] = remote_id

\* the flight computer after the supported actions of a queue, in order
RECURSIVE C25_SupportedOnly(_, _)
C25_SupportedOnly(computer, pending) ==
    IF pending = << >> THEN computer
    ELSE C25_SupportedOnly(
            IF Head(pending) \in SupportedActions
            THEN translate_action(computer, Head(pending))
            ELSE computer,
            Tail(pending))

C26_StartsOnEmptyCache ==
    [][ /\ init_replication_runtime
             => /\ RuntimeInserted'
                /\ known_entities' \in { hydrate_known_entity_ids(graph), {} }
        /\ ( /\ phase = "collect" /\ phase' = "refresh"
             /\ BroadcastUpdates(ships, fittings) # << >> )
             => last_tick' = SaturatingAdd1(last_tick) ]_vars

\* the render time of the last frame
C27_RenderTime == interpolation.now - INTERPOLATION_DELAY_S

\* the buffer has a snapshot at or before the render time and none after it
C27_OnlyBefore ==
    /\ interpolation.snapshots # << >>
    /\ \A i \in DOMAIN interpolation.snapshots :
         interpolation.snapshots[i].server_time <= C27_RenderTime

\* C27: with only a before snapshot for the render time, interpolation
\* returns that snapshot while the render time is less than
\* MAX_EXTRAPOLATION_S past it and nothing once it is further past: 0.04 s
\* past gives the snapshot, 0.1 s past gives nothing
C27_HoldsLatestSnapshot ==
    C27_OnlyBefore =>
        LET last == interpolation.snapshots[Len(interpolation.snapshots)]
            past == C27_RenderTime - last.server_time
        IN /\ past < MAX_EXTRAPOLATION_S
                => interpolation.result = Sample(last.server_time, last.position_m)
           /\ past > MAX_EXTRAPOLATION_S => ~interpolation.result.some

\* C28: on logout the client clears its tokens, its world snapshot, the
\* remote-ship registry and its authenticated bindings and returns to the
\* auth screen, so that on the auth screen after a logout, until the next
\* login is submitted, nothing of the previous login is left
C28_NothingLeftAfterLogout ==
    ( client_app.after_logout /\ client_app.state = "Auth" )
        => /\ client_app.access_token = 0
           /\ client_app.refresh_token = 0
           /\ client_app.world_snapshot = NoPlayer
           /\ client_app.by_entity_id = {}
           /\ client_app.sent_for_client_entities = {}

\* the live sessions whose accepted auth frame left a binding and a
\* registration with the visibility registry
C29_Registered ==
    DOMAIN clients \cap DOMAIN bindings.by_client_entity \cap DOMAIN visibility_registry

\* C29: from the acceptance of its auth frame and the registration of its
\* binding until its teardown, a session is sent a state frame for every
\* tick that produces a world delta: a queued delta stays queued until
\* broadcast_replication_state runs, and that step sends every live
\* registered session one frame per queued delta, with the delta's tick and
\* addressed to the session's remote id (visibility not switched off by
\* REPLICATION_VISIBILITY_MODE=none)
C29_RegisteredSessionIsServed ==
    [][ /\ phase # "broadcast" =>
             /\ Len(outbound') >= Len(outbound)
             /\ \A i \in 1..Len(outbound) : outbound'[i].tick = outbound[i].tick
        /\ ( phase = "broadcast" /\ visibility_mode = "default" ) =>
             /\ phase' = "end_frame"
             /\ outbound' = << >>
             /\ \A client_entity \in C29_Registered :
                  \A i \in 1..Len(outbound) :
                     Cardinality({ j \in 1..Len(state_channel') :
                        /\ state_channel'[j].client_entity = client_entity
                        /\ state_channel'[j].tick = outbound[i].tick
                        /\ state_channel'[j].target
                             = << "Single", clients[client_entity] >> }) = 1
      ]_vars

\* a live registered session has just been sent the frame of a tick after
\* the first
C29_Witness ==
    /\ phase = "end_frame"
    /\ visibility_mode = "default"
    /\ \E client_entity \in C29_Registered :
          /\ client_entity \in DOMAIN visibility_history
          /\ \E j \in 1..Len(state_channel) :
                /\ state_channel[j].client_entity = client_entity
                /\ state_channel[j].tick > 1
                /\ state_channel[j].target = << "Single", clients[client_entity] >>

\* what the filter step gives the session of a frame for the queued delta
\* the frame was made from
C30_Filtered(frame, queued) ==
    apply_visibility_filter(
        queued.world,
        visibility_context_for_client(frame.client_entity, visibility_registry,
                                      position_map, visibility_mode)).updates

\* C30: in every frame sent, no non-removed update of an entity comes after
\* a removed=true update of that entity, and the leave events of the session
\* come after the filter step: the frame is the filtered delta, in the
\* filter's order, followed by nothing but the synthetic removals
C30_RemovalsComeLast ==
    [][ phase = "broadcast" =>
          \A j \in 1..Len(state_channel') :
             LET frame == state_channel'[j] IN
             /\ \A a, b \in 1..Len(frame.updates) :
                   ( /\ a < b
                     /\ frame.updates[a].removed
                     /\ frame.updates[a].entity_id = frame.updates[b].entity_id )
                       => frame.updates[b].removed
             /\ \E i \in 1..Len(outbound) :
                   LET filtered == C30_Filtered(frame, outbound[i]) IN
                   /\ outbound[i].tick = frame.tick
                   /\ Len(frame.updates) >= Len(filtered)
                   /\ SubSeq(frame.updates, 1, Len(filtered)) = filtered
                   /\ \A k \in (Len(filtered) + 1)..Len(frame.updates) :
                         frame.updates[k] = SyntheticRemoval(frame.updates[k].entity_id)
      ]_vars

\* a frame sent opens with an update the filter let through and closes with
\* a leave event
C30_Witness ==
    /\ phase = "end_frame"
    /\ \E frame \in C_Frames :
          /\ Len(frame.updates) >= 2
          /\ ~frame.updates[1].removed
          /\ frame.updates[Len(frame.updates)].removed

\* the session's player may know the entity: it owns it, or the entity lies
\* in one of its authorization spheres
C31_Authorized(entity_id, player_entity_id) ==
    \/ C7_OwnerOf(entity_id) = player_entity_id
    \/ C8_InSomeSphere(entity_id, player_entity_id)

\* the frame delivers the entity
C31_Delivers(frame, entity_id) ==
    \E update \in C7_Delivered(frame) : update.entity_id = entity_id

\* C31: when broadcast_replication_state runs for a session that has a focus
\* position, an authorized entity whose update carries a position is in the
\* session's frame exactly when that position is no farther than
\* view_range_m from the focus position, and an owned entity whose update
\* carries no position is in the frame whatever the focus
C31_DeliveredWithinViewRange ==
    [][ phase = "broadcast" =>
          \A i \in 1..Len(state_channel') : \A q \in 1..Len(outbound) :
             \A j \in 1..Len(outbound[q].world) :
                LET frame == state_channel'[i]
                    source == outbound[q].world[j]
                    player == C7_PlayerOf(frame)
                    pos == extract_position(source.properties)
                IN ( /\ frame.tick = outbound[q].tick
                     /\ C31_Authorized(source.entity_id, player) ) =>
                      /\ ( pos # NoPos /\ player \in DOMAIN position_map ) =>
                            ( C31_Delivers(frame, source.entity_id)
                                <=> C8_DistanceSquared(pos, position_map[player])
                                      <= DEFAULT_VIEW_RANGE_M * DEFAULT_VIEW_RANGE_M )
                      /\ ( pos = NoPos /\ C7_OwnerOf(source.entity_id) = player ) =>
                            C31_Delivers(frame, source.entity_id)
      ]_vars

\* a frame of a session with a focus position delivers an owned entity that
\* has no position and an entity within the view range, and leaves out an
\* authorized entity beyond it
C31_Witness ==
    /\ phase = "end_frame"
    /\ \E frame \in C_Frames :
          LET player == C7_PlayerOf(frame) IN
          /\ player \in DOMAIN position_map
          /\ \E entity_id \in DOMAIN fittings :
                /\ C7_OwnerOf(entity_id) = player
                /\ C31_Delivers(frame, entity_id)
          /\ \E entity_id \in DOMAIN ships : C31_Delivers(frame, entity_id)
          /\ \E entity_id \in DOMAIN ships :
                /\ C31_Authorized(entity_id, player)
                /\ C8_DistanceSquared(ships[entity_id].position, position_map[player])
                      > DEFAULT_VIEW_RANGE_M * DEFAULT_VIEW_RANGE_M
                /\ ~C31_Delivers(frame, entity_id)

\* C32: the starter world is written to the graph and a spawn command is
\* sent to the simulation loop only by the processing of a payload that is
\* a valid command and returned applied=true: every step of the control
\* listener that changes the graph or the command channel records an
\* applied=true event of a valid command, writes nothing but that account's
\* starter world and sends at most that account's spawn command
C32_OnlyAppliedPayloadSpawns ==
    [][ ( graph' # graph \/ bootstrap_rx' # bootstrap_rx ) =>
          /\ Len(bootstrap_events') = Len(bootstrap_events) + 1
          /\ LET event == bootstrap_events'[Len(bootstrap_events')] IN
             /\ event.applied
             /\ event.account_id \in Accounts
             /\ event.player_entity_id = PlayerOfAccount(event.account_id)
             /\ DOMAIN graph'.entities \ DOMAIN graph.entities
                   \subseteq { PlayerOfAccount(event.account_id),
                               ShipOfAccount(event.account_id) }
             /\ bootstrap_rx' \in
                   { bootstrap_rx,
                     Append(bootstrap_rx,
                            [ player_entity_id |-> event.player_entity_id,
                              ship_entity_id |-> ShipOfAccount(event.account_id) ]) }
      ]_vars

\* one payload was applied, its starter world written and its spawn command
\* sent; a repeated payload returned applied=false and added neither
C32_Witness ==
    /\ Len(bootstrap_rx) = 1
    /\ Len(bootstrap_events) >= 2
    /\ bootstrap_events[1].applied
    /\ \E i \in 2..Len(bootstrap_events) :
          /\ ~bootstrap_events[i].applied
          /\ bootstrap_events[i].account_id = bootstrap_events[1].account_id
    /\ DOMAIN graph.entities
          = { PlayerOfAccount(bootstrap_events[1].account_id),
              ShipOfAccount(bootstrap_events[1].account_id) }

\* the ships of the simulation whose OwnerId is the player
C33_ShipsOwnedBy(player_entity_id) ==
    { id \in DOMAIN ships : ships[id].owner_id = player_entity_id }

C33_ExactlyOneShip(player_entity_id) ==
    /\ Cardinality(C33_ShipsOwnedBy(player_entity_id)) = 1
    /\ player_entity_id \in DOMAIN controlled_entity_map
    /\ controlled_entity_map[player_entity_id] \in C33_ShipsOwnedBy(player_entity_id)

\* C33: once the first bootstrap payload of an account has been processed,
\* every run of process_bootstrap_ship_commands leaves the simulation with
\* exactly one ship whose OwnerId is the account's player, and the map of
\* controlled entities points at it, whatever payloads were repeated before
C33_OneShipPerBootstrappedPlayer ==
    [][ (phase = "process_bootstrap" /\ phase' = "update_positions")
        => \A a \in Accounts :
             PlayerOfAccount(a) \in bootstrap_applied
               => C33_ExactlyOneShip(PlayerOfAccount(a))' ]_vars

\* C34: a step of the listener thread leaves the channel as it was or with
\* one command more at its end, and each run of
\* process_bootstrap_ship_commands receives every command that was sent
\* before it: the channel is empty afterwards, and the commands were
\* handled once each in the order they were sent (the i-th command of the
\* channel spawned the i-th new ship, for the player it names)
C34_EveryCommandConsumedOnceInOrder ==
    [][ /\ phase' = phase
          => \/ bootstrap_rx' = bootstrap_rx
             \/ /\ Len(bootstrap_rx') = Len(bootstrap_rx) + 1
                /\ SubSeq(bootstrap_rx', 1, Len(bootstrap_rx)) = bootstrap_rx
        /\ (phase = "process_bootstrap" /\ phase' = "update_positions")
          => /\ bootstrap_rx' = << >>
             /\ DOMAIN ships' =
                  DOMAIN ships \cup { bootstrap_rx[i].ship_entity_id :
                                        i \in 1..Len(bootstrap_rx) }
             /\ \A id \in DOMAIN ships : ships'[id] = ships[id]
             /\ \A i \in 1..Len(bootstrap_rx) :
                  LET spawned == ships'[bootstrap_rx[i].ship_entity_id] IN
                  /\ spawned.spawn_index = Cardinality(DOMAIN ships) + i
                  /\ spawned.owner_id = bootstrap_rx[i].player_entity_id
                  /\ controlled_entity_map'[bootstrap_rx[i].player_entity_id]
                       = bootstrap_rx[i].ship_entity_id ]_vars

\* one command was received and its ship spawned; the thread has sent the
\* next one while the frame was past process_bootstrap_ship_commands
C34_Witness ==
    /\ phase = "update_positions"
    /\ Cardinality(DOMAIN ships) = 1
    /\ Len(bootstrap_rx) = 1
    /\ bootstrap_rx[1].ship_entity_id \notin DOMAIN ships

\* C35: when the delta ingested by collect_local_simulation_state holds a
\* removal, the same step calls flush_pending_updates with the tick of the
\* step on everything that is pending after the ingest, whether or not the
\* persist interval has elapsed: the result carries that tick and that
\* batch, and the pending updates are drained
C35_RemovalForcesFlush ==
    [][ \A dirty_updates \in DirtyDeltas :
          ( /\ ingest_dirty_world(dirty_updates)
            /\ \E i \in 1..Len(dirty_updates) : dirty_updates[i].removed )
          => /\ persist_result'.status \in { "ok", "err" }
             /\ persist_result'.tick = last_tick'
             /\ persist_result'.batch =
                  ingest_world_delta(known_entities, pending_updates,
                                     dirty_updates).pending_updates
             /\ \A i \in 1..Len(dirty_updates) :
                  dirty_updates[i].entity_id \in DOMAIN persist_result'.batch
             /\ pending_updates' = EmptyMap ]_vars

\* collect has just run a flush of a batch with a removal, at its own
\* tick, before the persist interval had elapsed (the flush failed, so the
\* interval was not restarted by it)
C35_Witness ==
    /\ phase = "refresh"
    /\ ~persist_elapsed
    /\ persist_result.status = "err"
    /\ persist_result.tick = last_tick
    /\ \E id \in DOMAIN persist_result.batch : persist_result.batch[id].removed
    /\ pending_updates = EmptyMap

\* the entity is a hull that was never queued for persistence, or whose
\* position is more than 0.05 m from the one recorded when it last was
\* (the velocity and the health of a hull do not change in this model)
C36_CrossedThreshold(entity_id) ==
    /\ entity_id \in DOMAIN ships
    /\ \/ entity_id \notin DOMAIN last_persisted_state
       \/ LET a == ships[entity_id].position
              b == last_persisted_state[entity_id].position
          IN 400 * ( (a[1] - b[1]) * (a[1] - b[1]) + (a[2] - b[2]) * (a[2] - b[2])
                     + (a[3] - b[3]) * (a[3] - b[3]) ) > 1

\* C36: the dirty delta that collect_local_simulation_state hands to the
\* ingest holds only entities that crossed a change threshold since they
\* were last persisted; an entity with no such change is not in it
C36_OnlyChangedEntitiesAreDirty ==
    [][ (phase = "collect" /\ phase' = "refresh" /\ RuntimeInserted)
        => LET dirty_updates == DirtyUpdates(ships, fittings, last_persisted_state)
           IN \A i \in 1..Len(dirty_updates) :
                C36_CrossedThreshold(dirty_updates[i].entity_id) ]_vars

\* C37: when a state frame of server tick T for the controlled ship is
\* reconciled, the input history is left with the entries of tick > T and
\* no others
C37_ReconcilePrunesHistory ==
    [][ \A server_tick \in 1..MaxClientTick, server_pos \in ServerPositions,
           blend_halves \in { 1, 2 } :
          receive_controlled_update(server_tick, server_pos, blend_halves)
            => client_app'.entries =
                 SelectSeq(client_app.entries, LAMBDA tick : tick > server_tick) ]_vars

\* the persisted position of the hull is within 0.05 m of its live position
C38_PersistedMatchesLive(entity_id) ==
    /\ entity_id \in DOMAIN ships
    /\ entity_id \in DOMAIN graph.entities
    /\ LET a == ships[entity_id].position
           b == graph.entities[entity_id]["position_m"]
       IN 400 * ( (a[1] - b[1]) * (a[1] - b[1]) + (a[2] - b[2]) * (a[2] - b[2])
                  + (a[3] - b[3]) * (a[3] - b[3]) ) <= 1

\* C38: when the store keeps answering and keeps accepting flushes (frames
\* keep ending, and the persist interval is restarted by a successful flush
\* again and again), a hull that has come to rest is persisted where it
\* rests: its persisted state comes to match its live state and stays so,
\* whatever flushes failed before
C38_ChangeIsEventuallyPersisted ==
    ([]<>(phase = "idle") /\ []<>(~persist_elapsed))
        => <>[]C38_PersistedMatchesLive("ship:a")

\* C39: of the refresh requests that present the same token, in flight
\* together or one after another, at most one is handed the row and at
\* most one obtains tokens; a request the store answers with no row fails
\* with Unauthorized, and no request obtains tokens without the row
C39_OneRefreshPerToken ==
    /\ \A i, j \in 1..Len(handlers) :
         (i # j /\ handlers[i].token = handlers[j].token)
           => ~(handlers[i].consumed = "row" /\ handlers[j].consumed = "row")
    /\ \A i \in 1..Len(handlers) :
         /\ (handlers[i].at = "returned" /\ handlers[i].consumed = "none")
              => handlers[i].status = StatusOf("Unauthorized")
         /\ handlers[i].obtained # 0
              => (handlers[i].consumed = "row" /\ handlers[i].status = StatusOf(""))

\* two requests presented the same token while both were in flight: the
\* one that got the row obtained tokens, the other was answered no row and
\* Unauthorized, and a third is still waiting on the store
C39_Witness ==
    \E i, j, k \in 1..Len(handlers) :
        /\ i < j /\ k > j
        /\ handlers[i].token = handlers[j].token
        /\ handlers[k].token = handlers[i].token
        /\ handlers[j].obtained # 0
        /\ handlers[i].at = "returned"
        /\ handlers[i].consumed = "none"
        /\ handlers[i].status = StatusOf("Unauthorized")
        /\ handlers[k].at = "consume"

\* the dispatch of the account's bootstrap command has returned Ok
C40_Dispatched(account_id) ==
    \E k \in 1..Len(bootstrap_commands) :
        /\ bootstrap_commands[k].account_id = account_id
        /\ bootstrap_commands[k].sent

\* the registration that created the account is still waiting for the
\* dispatcher
C40_DispatchPending(account_id) ==
    \E i \in 1..Len(handlers) :
        /\ handlers[i].kind = "register"
        /\ handlers[i].account_id = account_id
        /\ handlers[i].pc = "dispatch"

\* C40: registration is all-or-nothing with respect to bootstrap: every
\* account in the store has had its bootstrap command dispatched
\* successfully (or its registration is still waiting for the dispatcher),
\* and a registration whose dispatch failed has left no account behind
C40_RegistrationIsAllOrNothing ==
    /\ \A email \in DOMAIN auth_accounts :
         \/ C40_Dispatched(auth_accounts[email].account_id)
         \/ C40_DispatchPending(auth_accounts[email].account_id)
    /\ \A k \in 1..Len(bootstrap_commands) :
         ~bootstrap_commands[k].sent
           => bootstrap_commands[k].account_id \notin AccountIdsInUse

====
